---- MODULE Spec2Model ----
(***************************************************************************)
(* A state-machine model of the liquidity network core: NetworkSettings,   *)
(* PoolCollection (one Pool record per base token), MasterPool, the        *)
(* vaults, PendingWithdrawals and the Network facade (deposit, withdraw,   *)
(* trade, flash-loan).  The Solidity contracts are not part of the source  *)
(* tree; their behaviour is taken from the specification and from what     *)
(* the test-suite, the Pool struct and the deployment script fix.          *)
(***************************************************************************)
EXTENDS Integers, Sequences, FiniteSets, TLC

(* ------------------------------ bounds -------------------------------- *)
MaxTime == 1
MaxClock == 4
MaxOps == 4
MaxAdminOps == 1
MaxRequests == 1
LpFunds == 4
TraderFunds == 2
RecipientFunds == 2
LpNetworkFunds == 2
RateCap == 32
MaxTradeAmount == 4
MaxTrades == 1

(* ----------------------------- constants ------------------------------ *)
MAX_DEVIATION == 10000
PPM_RESOLUTION == 1000000
LockDuration == 1
WithdrawalWindowDuration == 2

MIN_RETURN_AMOUNT == 1
StandardPoolType == 1
UnsupportedPoolType == 12345

GovToken == "vBNT"
NT == "BNT"
BaseTokens == {"TKN"}
Tokens == BaseTokens \cup {NT}

MasterVault == "masterVault"
ExternalProtectionVault == "externalProtectionVault"
Network == "network"
Custody == "pendingWithdrawals"
Recipient == "recipient"
Providers == {"lp"}
Traders == {"trader"}
Accounts == Providers \cup Traders \cup {Recipient, MasterVault, ExternalProtectionVault, Network}
Holders == Providers \cup {Custody}

ZERO_ADDRESS == "0x0"
\* the pool collection of the deployment and the one pools are upgraded to
PoolCollection == "poolCollection"
TargetPoolCollection == "targetPoolCollection"
Collections == {PoolCollection, TargetPoolCollection}
PoolTypes == {StandardPoolType, UnsupportedPoolType}
PoolType(c) == StandardPoolType
Version(c) == IF c = PoolCollection THEN 1 ELSE 2

(* small input domains *)
TradeAmounts == {2}
DepositAmounts == {2, 4}
PoolTokenAmounts == {2, 4}
LoanAmounts == {2}
MinReturnAmounts == {1, 2}
FeeValuesPPM == {0, 500000}
DeviationValuesPPM == {0, 1000000}
MinLiquidityValues == {0, 2}
FundingLimitValues == {0, 4}
DepositLimitValues == {0, 4}
VirtualRates == {1, 2}

(* ------------------------------ state --------------------------------- *)
VARIABLES
    settings,      \* NetworkSettings
    pools,         \* PoolCollection: base token -> Pool record
    masterPool,    \* MasterPool: NT staked balance, NT minted per pool, supply of
                   \* its pool token and the part of it the MasterPool holds
    balances,      \* token (governance token included) -> account -> amount
    poolTokens,    \* token -> holder -> pool-token amount
    requests,      \* PendingWithdrawals: open request id -> request
    nextId,        \* PendingWithdrawals: next request id
    time,          \* injected clock
    locked,        \* Network reentrancy flag
    pc,            \* "idle" | "callback" (inside a flash-loan callback)
    loan,          \* the running flash-loan
    txStart,       \* state at the start of the running flash-loan
    result,        \* outcome of the flash-loan the last step completed and the
                   \* call that raised its error, or NoResult
    loanEvents,    \* events emitted by the flash-loan the last step completed
    lastLoan,      \* amount, fee and returned amount of that flash-loan
    ops,           \* number of accepted Network operations so far
    adminOps,      \* number of settings changes so far
    registry,      \* Network: registered pool collections, the latest one of
                   \* each type, collectionByPool and liquidityPools
    collectionPools, \* pool collection -> the pools it holds
    vault,         \* Vault: pause flag, funds it holds and funds of the target
    roles,         \* component -> accounts holding ROLE_ADMIN on it
    initialized    \* component -> initialize has completed

coreVars == <<settings, pools, masterPool, balances, poolTokens, requests, nextId>>
vars == <<settings, pools, masterPool, balances, poolTokens, requests, nextId,
          time, locked, pc, loan, txStart, result, loanEvents, lastLoan, ops, adminOps,
          registry, collectionPools, vault, roles, initialized>>
registryVars == <<registry, collectionPools>>
accessVars == <<vault, roles, initialized>>

core == [settings |-> settings, pools |-> pools, masterPool |-> masterPool,
         balances |-> balances, poolTokens |-> poolTokens,
         requests |-> requests, nextId |-> nextId]

NoLoan == [token |-> "none", amount |-> 0, feeAmount |-> 0, prevBalance |-> 0,
           prevVaultBalance |-> 0, sender |-> "none"]
NoSnapshot == [none |-> TRUE]
NoResult == [outcome |-> "none", raisedBy |-> "none"]
NoLastLoan == [token |-> "none", amount |-> 0, feeAmount |-> 0, returned |-> 0]

(* --------------------------- math kernel ------------------------------ *)
Min(a, b) == IF a < b THEN a ELSE b
Max(a, b) == IF a > b THEN a ELSE b
SubMax0(a, b) == IF a > b THEN a - b ELSE 0
Abs(a) == IF a < 0 THEN 0 - a ELSE a

MulDivF(a, b, c) == (a * b) \div c

RECURSIVE GCD(_, _)
GCD(a, b) == IF b = 0 THEN a ELSE GCD(b, a % b)

\* fraction reduction: exact by the gcd, then lossy down to RateCap
Reduced(f) ==
    LET g == GCD(f.n, f.d)
        n1 == IF g = 0 THEN f.n ELSE f.n \div g
        d1 == IF g = 0 THEN f.d ELSE f.d \div g
        k == (Max(n1, d1) + RateCap - 1) \div RateCap
    IN IF k <= 1 THEN [n |-> n1, d |-> d1]
       ELSE [n |-> n1 \div k, d |-> Max(1, d1 \div k)]

ZeroFraction == [n |-> 0, d |-> 1]

(* ------------------------------ Pool ---------------------------------- *)
NoPool == [exists |-> FALSE]

NewPool ==
    [exists |-> TRUE,
     poolTokenSupply |-> 0,
     tradingFeePPM |-> 0,
     tradingEnabled |-> FALSE,
     depositingEnabled |-> TRUE,
     baseTokenTradingLiquidity |-> 0,
     networkTokenTradingLiquidity |-> 0,
     averageRate |-> [rate |-> ZeroFraction, time |-> 0],
     tradingLiquidityProduct |-> 0,
     stakedBalance |-> 0,
     initialRate |-> ZeroFraction,
     depositLimit |-> 0]

LiquidityProductSum(b, n) == b + n

\* the cached product of the trading liquidities
LiquidityProduct(b, n) == b * n

PoolExists(t) == t \in DOMAIN pools /\ pools[t].exists

\* |spot - average| / average <= maxDeviationPPM / PPM, spot = n / b
IsStable(b, n, avg, maxDeviationPPM) ==
    /\ b > 0
    /\ avg.n > 0
    /\ avg.d > 0
    /\ Abs(n * avg.d - avg.n * b) * PPM_RESOLUTION <= maxDeviationPPM * avg.n * b

PoolRateStable(p) ==
    IsStable(p.baseTokenTradingLiquidity, p.networkTokenTradingLiquidity,
             p.averageRate.rate, settings.averageRateMaxDeviationPPM)

HasTradingLiquidity(p) ==
    p.baseTokenTradingLiquidity > 0 /\ p.networkTokenTradingLiquidity > 0

AvailableFundingUncounted(t) == settings.fundingLimit[t]

AvailableFunding(t) == SubMax0(settings.fundingLimit[t], masterPool.currentPoolFunding[t])

\* the Network's reentrancy guard
ReentrantCall == "ReentrancyGuard: reentrant call"

NonReentrantOff == TRUE

NonReentrant == ~locked

(* ------------------------------ Init ---------------------------------- *)
FixtureProvider == CHOOSE pr \in Providers : TRUE
FixtureToken == CHOOSE t \in BaseTokens : TRUE

NewMasterPool ==
    [stakedBalance |-> 0,
     currentPoolFunding |-> [t \in BaseTokens |-> 0],
     poolTokenSupply |-> 0,
     poolTokenBalance |-> 0]

\* the test accounts' funds; no governance tokens are issued yet
(* ----------------------- roles, vault, components --------------------- *)
Deployer == "deployer"
\* nonOwner of the Network tests, sender of the vault tests: an account that
\* holds no role until it is granted one
NonOwner == "nonOwner"
Signers == {Deployer, NonOwner}
Components == {"network", "vault"}

\* the system as createSystem leaves it: every component initialized, the
\* deployer its only admin, the vault not paused and empty
AccessDeployed ==
    /\ vault = [paused |-> FALSE, funds |-> 0, targetFunds |-> 0]
    /\ roles = [c \in Components |-> {Deployer}]
    /\ initialized = [c \in Components |-> TRUE]

InitialBalances ==
    [t \in Tokens \cup {GovToken} |-> [a \in Accounts |->
        IF t = GovToken THEN 0
        ELSE IF a \in Providers THEN (IF t \in BaseTokens THEN LpFunds ELSE 0)
        ELSE IF a \in Traders THEN TraderFunds
        ELSE IF a = Recipient THEN RecipientFunds
        ELSE 0]]

\* the system as the deployment script and the test fixtures leave it: the
\* token whitelisted, its pool created, the limits, the minimum liquidity, the
\* maximum deviation and the withdrawal fee set; nothing deposited yet
Init ==
    /\ AccessDeployed
    /\ settings = [whitelist |-> BaseTokens,
                   fundingLimit |-> [t \in BaseTokens |-> 4],
                   minLiquidityForTrading |-> 2,
                   averageRateMaxDeviationPPM |-> PPM_RESOLUTION,
                   withdrawalFeePPM |-> 500000,
                   flashLoanFeePPM |-> 0]
    /\ pools = [t \in BaseTokens |-> [NewPool EXCEPT !.depositLimit = 4]]
    /\ masterPool = NewMasterPool
    /\ balances = InitialBalances
    /\ poolTokens = [t \in Tokens |-> [h \in Holders |-> 0]]
    /\ requests = << >>
    /\ nextId = 1
    /\ time = 0
    /\ locked = FALSE
    /\ pc = "idle"
    /\ loan = NoLoan
    /\ txStart = NoSnapshot
    /\ result = NoResult
    /\ loanEvents = << >>
    /\ lastLoan = NoLastLoan
    /\ ops = 0
    /\ adminOps = 0
    /\ registry = [poolCollections |-> {PoolCollection},
                   latestPoolCollections |->
                       [ty \in PoolTypes |-> IF ty = StandardPoolType THEN PoolCollection
                                             ELSE ZERO_ADDRESS],
                   collectionByPool |-> [t \in BaseTokens |-> PoolCollection],
                   liquidityPools |-> BaseTokens]
    /\ collectionPools = [c \in Collections |->
                             IF c = PoolCollection THEN BaseTokens ELSE {}]

(* ------------------------- step bookkeeping --------------------------- *)
Idle == pc = "idle"

\* a step that is not part of a flash-loan
Plain ==
    /\ result' = NoResult
    /\ loanEvents' = << >>
    /\ UNCHANGED accessVars
    /\ lastLoan' = NoLastLoan
    /\ UNCHANGED <<locked, pc, loan, txStart>>
    /\ UNCHANGED registryVars

\* a call that reverts: nothing is written, the caller sees the error
Rejected(err, call) ==
    /\ err # "ok"
    /\ result' = [outcome |-> err, raisedBy |-> call]
    /\ loanEvents' = << >>
    /\ UNCHANGED accessVars
    /\ lastLoan' = NoLastLoan
    /\ UNCHANGED <<coreVars, time, locked, pc, loan, txStart, ops, adminOps, registryVars>>

\* a call that completes and reports to the caller
Completed(call) ==
    /\ result' = [outcome |-> "ok", raisedBy |-> call]
    /\ loanEvents' = << >>
    /\ UNCHANGED accessVars
    /\ lastLoan' = NoLastLoan
    /\ UNCHANGED <<locked, pc, loan, txStart>>

\* an accepted Network operation
Operation ==
    /\ ops < MaxOps
    /\ ops' = ops + 1
    /\ UNCHANGED adminOps

\* a settings change by the admin (whitelisting a token again is not counted)
AdminOperation ==
    /\ adminOps < MaxAdminOps
    /\ adminOps' = adminOps + 1
    /\ UNCHANGED ops

(* ------------------------- NetworkSettings ---------------------------- *)
AddTokenToWhitelist(t) ==
    /\ Idle
    /\ t \notin settings.whitelist
    /\ settings' = [settings EXCEPT !.whitelist = @ \cup {t}]
    /\ Plain
    /\ UNCHANGED <<ops, adminOps>>
    /\ UNCHANGED <<pools, masterPool, balances, poolTokens, requests, nextId, time>>

RemoveTokenFromWhitelist(t) ==
    /\ Idle
    /\ t \in settings.whitelist
    /\ settings' = [settings EXCEPT !.whitelist = @ \ {t}]
    /\ Plain
    /\ AdminOperation
    /\ UNCHANGED <<pools, masterPool, balances, poolTokens, requests, nextId, time>>

SetFundingLimit(t, v) ==
    /\ Idle
    /\ settings.fundingLimit[t] # v
    /\ settings' = [settings EXCEPT !.fundingLimit[t] = v]
    /\ Plain
    /\ AdminOperation
    /\ UNCHANGED <<pools, masterPool, balances, poolTokens, requests, nextId, time>>

SetMinLiquidityForTrading(v) ==
    /\ Idle
    /\ settings.minLiquidityForTrading # v
    /\ settings' = [settings EXCEPT !.minLiquidityForTrading = v]
    /\ Plain
    /\ AdminOperation
    /\ UNCHANGED <<pools, masterPool, balances, poolTokens, requests, nextId, time>>

SetAverageRateMaxDeviationPPM(v) ==
    /\ Idle
    /\ v <= PPM_RESOLUTION
    /\ settings.averageRateMaxDeviationPPM # v
    /\ settings' = [settings EXCEPT !.averageRateMaxDeviationPPM = v]
    /\ Plain
    /\ AdminOperation
    /\ UNCHANGED <<pools, masterPool, balances, poolTokens, requests, nextId, time>>

SetWithdrawalFeePPM(v) ==
    /\ Idle
    /\ v <= PPM_RESOLUTION
    /\ settings.withdrawalFeePPM # v
    /\ settings' = [settings EXCEPT !.withdrawalFeePPM = v]
    /\ Plain
    /\ AdminOperation
    /\ UNCHANGED <<pools, masterPool, balances, poolTokens, requests, nextId, time>>

SetFlashLoanFeePPM(v) ==
    /\ Idle
    /\ v <= PPM_RESOLUTION
    /\ settings.flashLoanFeePPM # v
    /\ settings' = [settings EXCEPT !.flashLoanFeePPM = v]
    /\ Plain
    /\ AdminOperation
    /\ UNCHANGED <<pools, masterPool, balances, poolTokens, requests, nextId, time>>

(* --------------------------- PoolCollection --------------------------- *)
CreatePoolOutcomeNoDuplicateCheck(t) ==
    IF t \notin settings.whitelist THEN "NotWhitelisted" ELSE "ok"

\* create_pool: a fresh Pool with depositing on, trading off, zero liquidity
CreatePoolOutcome(t) ==
    IF t \notin settings.whitelist THEN "NotWhitelisted"
    ELSE IF pools[t].exists THEN "AlreadyExists"
    ELSE "ok"

SetDepositLimit(t, v) ==
    /\ Idle
    /\ pools[t].exists
    /\ pools[t].depositLimit # v
    /\ pools' = [pools EXCEPT ![t].depositLimit = v]
    /\ Plain
    /\ AdminOperation
    /\ UNCHANGED <<settings, masterPool, balances, poolTokens, requests, nextId, time>>

SetTradingFeePPM(t, v) ==
    /\ Idle
    /\ pools[t].exists
    /\ v <= PPM_RESOLUTION
    /\ pools[t].tradingFeePPM # v
    /\ pools' = [pools EXCEPT ![t].tradingFeePPM = v]
    /\ Plain
    /\ AdminOperation
    /\ UNCHANGED <<settings, masterPool, balances, poolTokens, requests, nextId, time>>

\* master pool tokens worth an NT amount, from the supply and the staked
\* balance of the MasterPool
MasterPoolTokenAmount(mp, amount) ==
    IF mp.poolTokenSupply = 0 \/ mp.stakedBalance = 0 THEN amount
    ELSE MulDivF(amount, mp.poolTokenSupply, mp.stakedBalance)

\* PoolCollection.enableDepositing(pool, status)
EnableDepositing(t, status) ==
    /\ Idle
    /\ pools[t].exists
    /\ pools[t].depositingEnabled # status
    /\ pools' = [pools EXCEPT ![t].depositingEnabled = status]
    /\ Plain
    /\ AdminOperation
    /\ UNCHANGED <<settings, masterPool, balances, poolTokens, requests, nextId, time>>

\* MasterPool.request_liquidity: record the NT minted into the master vault;
\* the MasterPool stakes it and mints itself the pool tokens for it
RequestLiquidity(mp, t, amount) ==
    LET poolTokenAmount == MasterPoolTokenAmount(mp, amount)
    IN [mp EXCEPT !.currentPoolFunding[t] = @ + amount,
                  !.stakedBalance = @ + amount,
                  !.poolTokenSupply = @ + poolTokenAmount,
                  !.poolTokenBalance = @ + poolTokenAmount]

\* MasterPool.renounce_liquidity: decrement by the NT burned from the vault;
\* the MasterPool burns its pool tokens for it
RenounceLiquidity(mp, t, amount) ==
    LET poolTokenAmount == Min(MasterPoolTokenAmount(mp, amount), mp.poolTokenBalance)
    IN [mp EXCEPT !.currentPoolFunding[t] = SubMax0(@, amount),
                  !.stakedBalance = SubMax0(@, amount),
                  !.poolTokenSupply = @ - poolTokenAmount,
                  !.poolTokenBalance = @ - poolTokenAmount]

\* enableTrading(pool, bntVirtualRate, tknVirtualRate): n is the minimum
\* liquidity for trading, b its value in base tokens at the virtual rate
EnableTradingLiquidity(bntVirtualRate, tknVirtualRate) ==
    LET n == settings.minLiquidityForTrading
    IN [n |-> n, b |-> MulDivF(n, tknVirtualRate, bntVirtualRate)]

EnableTradingOutcome(t, bntVirtualRate, tknVirtualRate) ==
    LET p == pools[t]
        l == EnableTradingLiquidity(bntVirtualRate, tknVirtualRate)
    IN IF ~p.exists THEN "DoesNotExist"
       ELSE IF p.tradingEnabled THEN "AlreadyExists"
       ELSE IF l.n = 0 \/ l.b = 0 \/ l.b > p.stakedBalance \/ l.n > AvailableFunding(t)
            THEN "NetworkLiquidityDisabled"
       ELSE "ok"

EnableTrading(t, bntVirtualRate, tknVirtualRate) ==
    /\ Idle
    /\ EnableTradingOutcome(t, bntVirtualRate, tknVirtualRate) = "ok"
    /\ LET p == pools[t]
           l == EnableTradingLiquidity(bntVirtualRate, tknVirtualRate)
       IN /\ pools' = [pools EXCEPT ![t] =
                  [p EXCEPT !.tradingEnabled = TRUE,
                            !.baseTokenTradingLiquidity = l.b,
                            !.networkTokenTradingLiquidity = l.n,
                            !.tradingLiquidityProduct = LiquidityProduct(l.b, l.n),
                            !.averageRate = [rate |-> Reduced([n |-> l.n, d |-> l.b]),
                                             time |-> time]]]
          /\ masterPool' = RequestLiquidity(masterPool, t, l.n)
          /\ balances' = [balances EXCEPT ![NT][MasterVault] = @ + l.n]
    /\ Plain
    /\ Operation
    /\ UNCHANGED <<settings, poolTokens, requests, nextId, time>>

\* a reset that closes the pool for deposits as well
ResetTradingLiquidityAndDepositing(p) ==
    [p EXCEPT !.tradingEnabled = FALSE,
              !.depositingEnabled = FALSE,
              !.baseTokenTradingLiquidity = 0,
              !.networkTokenTradingLiquidity = 0,
              !.tradingLiquidityProduct = 0,
              !.averageRate = [rate |-> ZeroFraction, time |-> 0]]

\* trading switched off: the trading liquidity is reset
ResetTradingLiquidity(p) ==
    [p EXCEPT !.tradingEnabled = FALSE,
              !.baseTokenTradingLiquidity = 0,
              !.networkTokenTradingLiquidity = 0,
              !.tradingLiquidityProduct = 0,
              !.averageRate = [rate |-> ZeroFraction, time |-> 0]]

DisableTrading(t) ==
    /\ Idle
    /\ pools[t].exists
    /\ pools[t].tradingEnabled
    /\ LET p == pools[t]
           n == p.networkTokenTradingLiquidity
           burn == Min(n, balances[NT][MasterVault])
       IN /\ pools' = [pools EXCEPT ![t] = ResetTradingLiquidity(p)]
          /\ masterPool' = RenounceLiquidity(masterPool, t, n)
          /\ balances' = [balances EXCEPT ![NT][MasterVault] = @ - burn]
    /\ Plain
    /\ Operation
    /\ UNCHANGED <<settings, poolTokens, requests, nextId, time>>

(* ------------------------------ deposit ------------------------------- *)
\* pool tokens issued for a deposit, from the supply and the staked balance
\* before the deposit
UnderlyingToPoolTokenByStake(p, amount) ==
    IF p.stakedBalance = 0 THEN amount
    ELSE MulDivF(amount, p.poolTokenSupply, p.stakedBalance)

UnderlyingToPoolToken(p, amount) ==
    IF p.poolTokenSupply = 0 THEN amount
    ELSE MulDivF(amount, p.poolTokenSupply, p.stakedBalance)

DepositOutcomeIgnoringRate(sender, t, amount) ==
    IF ~NonReentrant THEN ReentrantCall
    ELSE IF amount = 0 THEN "ZeroValue"
    ELSE IF ~PoolExists(t) THEN "InvalidToken"
    ELSE IF AvailableFunding(t) > 0 /\ t \notin settings.whitelist
         THEN "NetworkLiquidityDisabled"
    ELSE IF t \notin settings.whitelist THEN "NotWhitelisted"
    ELSE IF ~pools[t].depositingEnabled THEN "DepositingDisabled"
    ELSE IF pools[t].stakedBalance + amount > pools[t].depositLimit THEN "DepositLimitExceeded"
    ELSE IF balances[t][sender] < amount THEN "ERC20: transfer amount exceeds balance"
    ELSE "ok"

DepositOutcomeBelowLimit(sender, t, amount) ==
    IF ~NonReentrant THEN ReentrantCall
    ELSE IF amount = 0 THEN "ZeroValue"
    ELSE IF ~PoolExists(t) THEN "InvalidToken"
    ELSE IF AvailableFunding(t) > 0
            /\ (t \notin settings.whitelist
                \/ (HasTradingLiquidity(pools[t]) /\ ~PoolRateStable(pools[t])))
         THEN "NetworkLiquidityDisabled"
    ELSE IF t \notin settings.whitelist THEN "NotWhitelisted"
    ELSE IF ~pools[t].depositingEnabled THEN "DepositingDisabled"
    ELSE IF pools[t].stakedBalance + amount >= pools[t].depositLimit THEN "DepositLimitExceeded"
    ELSE IF balances[t][sender] < amount THEN "ERC20: transfer amount exceeds balance"
    ELSE "ok"

DepositOutcome(sender, t, amount) ==
    IF ~NonReentrant THEN ReentrantCall
    ELSE IF amount = 0 THEN "ZeroValue"
    ELSE IF ~PoolExists(t) THEN "InvalidToken"
    ELSE IF AvailableFunding(t) > 0
            /\ (t \notin settings.whitelist
                \/ (HasTradingLiquidity(pools[t]) /\ ~PoolRateStable(pools[t])))
         THEN "NetworkLiquidityDisabled"
    ELSE IF t \notin settings.whitelist THEN "NotWhitelisted"
    ELSE IF ~pools[t].depositingEnabled THEN "DepositingDisabled"
    ELSE IF pools[t].stakedBalance + amount > pools[t].depositLimit THEN "DepositLimitExceeded"
    ELSE IF balances[t][sender] < amount THEN "ERC20: transfer amount exceeds balance"
    ELSE "ok"

\* the NT top-up of the trading liquidity for a deposit: proportional to the
\* deposit at the spot rate, within the available funding; skipped when the
\* new spot rate would leave the deviation bound
DepositTopUpWanted(t, amount) ==
    LET p == pools[t]
        b == p.baseTokenTradingLiquidity
        n == p.networkTokenTradingLiquidity
        wanted == IF b = 0 THEN 0 ELSE MulDivF(amount, n, b)
        dn == Min(wanted, AvailableFunding(t))
        db == IF dn = wanted THEN amount ELSE IF n = 0 THEN 0 ELSE MulDivF(dn, b, n)
    IN [b |-> db, n |-> dn]

\* the top-up would take the spot rate out of the deviation bound
TopUpBreaksDeviation(t, amount) ==
    LET p == pools[t]
        w == DepositTopUpWanted(t, amount)
    IN ~IsStable(p.baseTokenTradingLiquidity + w.b, p.networkTokenTradingLiquidity + w.n,
                 p.averageRate.rate, settings.averageRateMaxDeviationPPM)

DepositTopUpUnchecked(t, amount) ==
    LET w == DepositTopUpWanted(t, amount)
    IN IF ~pools[t].tradingEnabled \/ w.n = 0 \/ w.b = 0 THEN [b |-> 0, n |-> 0]
       ELSE w

DepositTopUp(t, amount) ==
    LET w == DepositTopUpWanted(t, amount)
        none == [b |-> 0, n |-> 0]
    IN IF ~pools[t].tradingEnabled \/ w.n = 0 \/ w.b = 0 THEN none
       ELSE IF TopUpBreaksDeviation(t, amount) THEN none
       ELSE w

\* a deposit that opens trading once the pool holds the minimum liquidity
DepositEffectEnablingTrading(sender, provider, t, amount) ==
    LET p == pools[t]
        poolTokenAmount == UnderlyingToPoolToken(p, amount)
        up == DepositTopUp(t, amount)
        b1 == p.baseTokenTradingLiquidity + up.b
        n1 == p.networkTokenTradingLiquidity + up.n
    IN /\ pools' = [pools EXCEPT ![t] =
               [p EXCEPT !.tradingEnabled =
                             @ \/ p.stakedBalance + amount >= settings.minLiquidityForTrading,
                         !.stakedBalance = @ + amount,
                         !.poolTokenSupply = @ + poolTokenAmount,
                         !.baseTokenTradingLiquidity = b1,
                         !.networkTokenTradingLiquidity = n1,
                         !.tradingLiquidityProduct = LiquidityProduct(b1, n1)]]
       /\ poolTokens' = [poolTokens EXCEPT ![t][provider] = @ + poolTokenAmount]
       /\ masterPool' = RequestLiquidity(masterPool, t, up.n)
       /\ balances' = [balances EXCEPT ![t][sender] = @ - amount,
                                       ![t][MasterVault] = @ + amount,
                                       ![NT][MasterVault] = @ + up.n]
       /\ UNCHANGED <<settings, requests, nextId>>

DepositEffect(sender, provider, t, amount) ==
    LET p == pools[t]
        poolTokenAmount == UnderlyingToPoolToken(p, amount)
        up == DepositTopUp(t, amount)
        b1 == p.baseTokenTradingLiquidity + up.b
        n1 == p.networkTokenTradingLiquidity + up.n
    IN /\ pools' = [pools EXCEPT ![t] =
               [p EXCEPT !.stakedBalance = @ + amount,
                         !.poolTokenSupply = @ + poolTokenAmount,
                         !.baseTokenTradingLiquidity = b1,
                         !.networkTokenTradingLiquidity = n1,
                         !.tradingLiquidityProduct = LiquidityProduct(b1, n1)]]
       /\ poolTokens' = [poolTokens EXCEPT ![t][provider] = @ + poolTokenAmount]
       /\ masterPool' = RequestLiquidity(masterPool, t, up.n)
       /\ balances' = [balances EXCEPT ![t][sender] = @ - amount,
                                       ![t][MasterVault] = @ + amount,
                                       ![NT][MasterVault] = @ + up.n]
       /\ UNCHANGED <<settings, requests, nextId>>

Deposit(provider, t, amount) ==
    /\ Idle
    /\ DepositOutcome(provider, t, amount) = "ok"
    /\ DepositEffect(provider, provider, t, amount)
    /\ Plain
    /\ Operation
    /\ UNCHANGED time

DepositForCreditingSender(sender, provider, t, amount) ==
    /\ Idle
    /\ sender # provider
    /\ DepositOutcome(sender, t, amount) = "ok"
    /\ DepositEffect(sender, sender, t, amount)
    /\ Plain
    /\ Operation
    /\ UNCHANGED time

\* a deposit the Network turns down
DepositRejected(sender, t, amount) ==
    /\ Idle
    /\ Rejected(DepositOutcome(sender, t, amount), "deposit")

\* depositFor(provider, token, amount): the sender pays, the provider is
\* credited
DepositFor(sender, provider, t, amount) ==
    /\ Idle
    /\ sender # provider
    /\ DepositOutcome(sender, t, amount) = "ok"
    /\ DepositEffect(sender, provider, t, amount)
    /\ Plain
    /\ Operation
    /\ UNCHANGED time

\* deposit of the network token: served by the MasterPool from the pool
\* tokens it holds
NetworkTokenDepositOutcome(sender, amount) ==
    IF ~NonReentrant THEN ReentrantCall
    ELSE IF amount = 0 THEN "ZeroValue"
    ELSE IF balances[NT][sender] < amount THEN "ERC20: burn amount exceeds balance"
    ELSE IF MasterPoolTokenAmount(masterPool, amount) > masterPool.poolTokenBalance
         THEN "ERC20: transfer amount exceeds balance"
    ELSE "ok"

\* the governance tokens issued for an amount of master pool tokens
GovTokenAmountNone(poolTokenAmount) == 0

GovTokenAmount(poolTokenAmount) == poolTokenAmount

\* the sender's NT is burned; the provider receives master pool tokens out of
\* the MasterPool's holdings and as many governance tokens, newly minted
NetworkTokenDepositEffect(sender, provider, amount) ==
    LET poolTokenAmount == MasterPoolTokenAmount(masterPool, amount)
    IN /\ masterPool' = [masterPool EXCEPT !.poolTokenBalance = @ - poolTokenAmount]
       /\ poolTokens' = [poolTokens EXCEPT ![NT][provider] = @ + poolTokenAmount]
       /\ balances' = [balances EXCEPT
              ![NT][sender] = @ - amount,
              ![GovToken][provider] = @ + GovTokenAmount(poolTokenAmount)]
       /\ UNCHANGED <<settings, pools, requests, nextId>>

\* deposit(NT, amount) and depositFor(provider, NT, amount)
NetworkTokenDeposit(sender, provider, amount) ==
    /\ Idle
    /\ NetworkTokenDepositOutcome(sender, amount) = "ok"
    /\ NetworkTokenDepositEffect(sender, provider, amount)
    /\ Plain
    /\ Operation
    /\ UNCHANGED time

(* ------------------------- PendingWithdrawals ------------------------- *)
OpenRequest(id) == id \in DOMAIN requests

InitWithdrawalOutcome(provider, t, poolTokenAmount) ==
    IF poolTokenAmount = 0 THEN "ZeroValue"
    ELSE IF ~PoolExists(t) THEN "InvalidPool"
    ELSE IF poolTokens[t][provider] < poolTokenAmount
         THEN "ERC20: transfer amount exceeds balance"
    ELSE "ok"

\* a request recorded for more pool tokens than the custody receives
InitWithdrawalWithinShortOfCustody(maxId, provider, t, poolTokenAmount) ==
    /\ Idle
    /\ nextId <= maxId
    /\ InitWithdrawalOutcome(provider, t, poolTokenAmount) = "ok"
    /\ poolTokens' = [poolTokens EXCEPT ![t][provider] = @ - poolTokenAmount + 1,
                                        ![t][Custody] = @ + poolTokenAmount - 1]
    /\ requests' = requests @@ (nextId :> [provider |-> provider,
                                           poolToken |-> t,
                                           poolTokenAmount |-> poolTokenAmount,
                                           createdAt |-> time])
    /\ nextId' = nextId + 1
    /\ Plain
    /\ Operation
    /\ UNCHANGED <<settings, pools, masterPool, balances, time>>

\* initWithdrawal while at most maxId requests have been opened
InitWithdrawalWithin(maxId, provider, t, poolTokenAmount) ==
    /\ Idle
    /\ nextId <= maxId
    /\ InitWithdrawalOutcome(provider, t, poolTokenAmount) = "ok"
    /\ poolTokens' = [poolTokens EXCEPT ![t][provider] = @ - poolTokenAmount,
                                        ![t][Custody] = @ + poolTokenAmount]
    /\ requests' = requests @@ (nextId :> [provider |-> provider,
                                           poolToken |-> t,
                                           poolTokenAmount |-> poolTokenAmount,
                                           createdAt |-> time])
    /\ nextId' = nextId + 1
    /\ Plain
    /\ Operation
    /\ UNCHANGED <<settings, pools, masterPool, balances, time>>

InitWithdrawal(provider, t, poolTokenAmount) ==
    InitWithdrawalWithin(MaxRequests, provider, t, poolTokenAmount)

RemoveRequest(id) == [i \in DOMAIN requests \ {id} |-> requests[i]]

CancelWithdrawalOutcomeBeforeExpiry(provider, id) ==
    IF ~OpenRequest(id) THEN "AccessDenied"
    ELSE IF requests[id].provider # provider THEN "AccessDenied"
    ELSE IF time > requests[id].createdAt + LockDuration + WithdrawalWindowDuration
         THEN "WithdrawalNotAllowed"
    ELSE "ok"

CancelWithdrawalOutcome(provider, id) ==
    IF ~OpenRequest(id) THEN "AccessDenied"
    ELSE IF requests[id].provider # provider THEN "AccessDenied"
    ELSE "ok"

CancelWithdrawal(provider, id) ==
    /\ Idle
    /\ CancelWithdrawalOutcome(provider, id) = "ok"
    /\ LET r == requests[id]
       IN poolTokens' = [poolTokens EXCEPT ![r.poolToken][Custody] = @ - r.poolTokenAmount,
                                           ![r.poolToken][provider] = @ + r.poolTokenAmount]
    /\ requests' = RemoveRequest(id)
    /\ Plain
    /\ Operation
    /\ UNCHANGED <<settings, pools, masterPool, balances, nextId, time>>

CanWithdrawAtAfterLock(now, r) == r.createdAt + LockDuration <= now

\* Ready: from the end of the lock duration to the end of the withdrawal window
CanWithdrawAt(now, r) ==
    /\ r.createdAt + LockDuration <= now
    /\ now <= r.createdAt + LockDuration + WithdrawalWindowDuration

CompleteWithdrawalOutcomeAnyCaller(provider, id, now) ==
    IF ~OpenRequest(id) THEN "AccessDenied"
    ELSE IF ~CanWithdrawAt(now, requests[id]) THEN "WithdrawalNotAllowed"
    ELSE "ok"

CompleteWithdrawalOutcome(provider, id, now) ==
    IF ~OpenRequest(id) THEN "AccessDenied"
    ELSE IF requests[id].provider # provider THEN "AccessDenied"
    ELSE IF ~CanWithdrawAt(now, requests[id]) THEN "WithdrawalNotAllowed"
    ELSE "ok"

(* ------------------------------ withdraw ------------------------------ *)
WithdrawalShareWhole(p, poolTokenAmount) == p.stakedBalance

\* the provider's pro-rata share of the staked balance
WithdrawalShare(p, poolTokenAmount) ==
    MulDivF(poolTokenAmount, p.stakedBalance, p.poolTokenSupply)

KeepsTradingUnchecked(p, b1, n1, minLiquidity, maxDeviationPPM) == p.tradingEnabled

\* trading stays on after a withdrawal when the remaining liquidity is at
\* least the minimum and the price is preserved within the deviation bound
KeepsTrading(p, b1, n1, minLiquidity, maxDeviationPPM) ==
    /\ p.tradingEnabled
    /\ n1 >= minLiquidity
    /\ IsStable(b1, n1, p.averageRate.rate, maxDeviationPPM)

\* the withdrawal solver
WithdrawalAmounts(p, poolTokenAmount, vaultBalance, externalBalance, withdrawalFeePPM, minLiquidity, maxDeviationPPM) ==
    LET b == p.baseTokenTradingLiquidity
        n == p.networkTokenTradingLiquidity
        s == p.stakedBalance
        share == WithdrawalShare(p, poolTokenAmount)
        fee == MulDivF(share, withdrawalFeePPM, PPM_RESOLUTION)
        owed == share - fee
        fromVault == Min(owed, vaultBalance)
        fromExternal == Min(owed - fromVault, externalBalance)
        short == owed - fromVault - fromExternal
        newS == s - share
        b1 == IF s = 0 THEN 0 ELSE MulDivF(b, newS, s)
        n1 == IF s = 0 THEN 0 ELSE MulDivF(n, newS, s)
        keep == KeepsTrading(p, b1, n1, minLiquidity, maxDeviationPPM)
    IN [baseTokenAmountToTransferFromVaultToProvider |-> fromVault,
        baseTokenAmountToTransferFromExternalProtectionVaultToProvider |-> fromExternal,
        networkTokenAmountToMintForProvider |->
            IF short > 0 /\ b > 0 THEN MulDivF(short, n, b) ELSE 0,
        baseTokenWithdrawalFeeAmount |-> fee,
        newBaseTokenTradingLiquidity |-> IF keep THEN b1 ELSE 0,
        newNetworkTokenTradingLiquidity |-> IF keep THEN n1 ELSE 0,
        newStakedBalance |-> newS,
        networkTokenAmountToBurnFromPool |-> IF keep THEN n - n1 ELSE n,
        tradingEnabled |-> keep]

WithdrawOutcomeIgnoringRate(caller, id) ==
    IF ~NonReentrant THEN ReentrantCall
    ELSE IF CompleteWithdrawalOutcome(caller, id, time) # "ok"
         THEN CompleteWithdrawalOutcome(caller, id, time)
    ELSE IF requests[id].poolToken \notin settings.whitelist THEN "NetworkLiquidityDisabled"
    ELSE "ok"

WithdrawOutcome(caller, id) ==
    IF ~NonReentrant THEN ReentrantCall
    ELSE IF CompleteWithdrawalOutcome(caller, id, time) # "ok"
         THEN CompleteWithdrawalOutcome(caller, id, time)
    ELSE LET t == requests[id].poolToken
         IN IF t \notin settings.whitelist
               \/ (HasTradingLiquidity(pools[t]) /\ ~PoolRateStable(pools[t]))
            THEN "NetworkLiquidityDisabled"
            ELSE "ok"

\* a withdrawal that leaves the request open
WithdrawEffectKeepingRequest(provider, id) ==
    LET r == requests[id]
        t == r.poolToken
        p == pools[t]
        w == WithdrawalAmounts(p, r.poolTokenAmount, balances[t][MasterVault],
                               balances[t][ExternalProtectionVault],
                               settings.withdrawalFeePPM,
                               settings.minLiquidityForTrading,
                               settings.averageRateMaxDeviationPPM)
        burn == Min(w.networkTokenAmountToBurnFromPool, balances[NT][MasterVault])
        kept == [p EXCEPT !.stakedBalance = w.newStakedBalance,
                          !.poolTokenSupply = @ - r.poolTokenAmount,
                          !.baseTokenTradingLiquidity = w.newBaseTokenTradingLiquidity,
                          !.networkTokenTradingLiquidity = w.newNetworkTokenTradingLiquidity,
                          !.tradingLiquidityProduct =
                              LiquidityProduct(w.newBaseTokenTradingLiquidity,
                                               w.newNetworkTokenTradingLiquidity)]
    IN /\ pools' = [pools EXCEPT ![t] =
               IF w.tradingEnabled \/ ~p.tradingEnabled THEN kept
               ELSE ResetTradingLiquidity(kept)]
       /\ poolTokens' = [poolTokens EXCEPT ![t][Custody] = @ - r.poolTokenAmount]
       /\ requests' = requests
       /\ masterPool' = RenounceLiquidity(masterPool, t, w.networkTokenAmountToBurnFromPool)
       /\ balances' = [balances EXCEPT
               ![t][MasterVault] = @ - w.baseTokenAmountToTransferFromVaultToProvider,
               ![t][ExternalProtectionVault] =
                   @ - w.baseTokenAmountToTransferFromExternalProtectionVaultToProvider,
               ![t][provider] = @ + w.baseTokenAmountToTransferFromVaultToProvider
                                  + w.baseTokenAmountToTransferFromExternalProtectionVaultToProvider,
               ![NT][MasterVault] = @ - burn,
               ![NT][provider] = @ + w.networkTokenAmountToMintForProvider]
       /\ UNCHANGED <<settings, nextId>>

WithdrawEffect(provider, id) ==
    LET r == requests[id]
        t == r.poolToken
        p == pools[t]
        w == WithdrawalAmounts(p, r.poolTokenAmount, balances[t][MasterVault],
                               balances[t][ExternalProtectionVault],
                               settings.withdrawalFeePPM,
                               settings.minLiquidityForTrading,
                               settings.averageRateMaxDeviationPPM)
        burn == Min(w.networkTokenAmountToBurnFromPool, balances[NT][MasterVault])
        kept == [p EXCEPT !.stakedBalance = w.newStakedBalance,
                          !.poolTokenSupply = @ - r.poolTokenAmount,
                          !.baseTokenTradingLiquidity = w.newBaseTokenTradingLiquidity,
                          !.networkTokenTradingLiquidity = w.newNetworkTokenTradingLiquidity,
                          !.tradingLiquidityProduct =
                              LiquidityProduct(w.newBaseTokenTradingLiquidity,
                                               w.newNetworkTokenTradingLiquidity)]
    IN /\ pools' = [pools EXCEPT ![t] =
               IF w.tradingEnabled \/ ~p.tradingEnabled THEN kept
               ELSE ResetTradingLiquidity(kept)]
       /\ poolTokens' = [poolTokens EXCEPT ![t][Custody] = @ - r.poolTokenAmount]
       /\ requests' = RemoveRequest(id)
       /\ masterPool' = RenounceLiquidity(masterPool, t, w.networkTokenAmountToBurnFromPool)
       /\ balances' = [balances EXCEPT
               ![t][MasterVault] = @ - w.baseTokenAmountToTransferFromVaultToProvider,
               ![t][ExternalProtectionVault] =
                   @ - w.baseTokenAmountToTransferFromExternalProtectionVaultToProvider,
               ![t][provider] = @ + w.baseTokenAmountToTransferFromVaultToProvider
                                  + w.baseTokenAmountToTransferFromExternalProtectionVaultToProvider,
               ![NT][MasterVault] = @ - burn,
               ![NT][provider] = @ + w.networkTokenAmountToMintForProvider]
       /\ UNCHANGED <<settings, nextId>>

Withdraw(provider, id) ==
    /\ Idle
    /\ WithdrawOutcome(provider, id) = "ok"
    /\ WithdrawEffect(provider, id)
    /\ Plain
    /\ Operation
    /\ UNCHANGED time

\* a withdraw call that reverts
WithdrawRejected(caller, id) ==
    /\ Idle
    /\ Rejected(WithdrawOutcome(caller, id), "withdraw")

(* ------------------------------- trade -------------------------------- *)
\* the average rate moves half-way to the spot rate once per timestamp
UpdatedAverageRate(p, now) ==
    LET avg == p.averageRate
        b == p.baseTokenTradingLiquidity
        n == p.networkTokenTradingLiquidity
    IN IF avg.time = now \/ b = 0 THEN avg
       ELSE [rate |-> Reduced([n |-> avg.rate.n * b + n * avg.rate.d,
                               d |-> 2 * avg.rate.d * b]),
             time |-> now]

\* constant-product output for amount a in, source reserve x, target reserve y
TradeFeeDoubled(a, feePPM) == 2 * MulDivF(a, feePPM, PPM_RESOLUTION)

TradeFee(a, feePPM) == MulDivF(a, feePPM, PPM_RESOLUTION)

TradeAmountOutOfGrossAmount(x, y, a, feePPM) ==
    LET fee == TradeFee(a, feePPM)
    IN IF x + a - fee = 0 THEN 0 ELSE MulDivF(y, a, x + a - fee)

TradeAmountOut(x, y, a, feePPM) ==
    LET fee == TradeFee(a, feePPM)
    IN IF x + a - fee = 0 THEN 0 ELSE MulDivF(y, a - fee, x + a - fee)

\* one hop on pool p: NT in and base token out, or base token in and NT out
TradeHop(p, sourceIsNT, a) ==
    LET b == p.baseTokenTradingLiquidity
        n == p.networkTokenTradingLiquidity
        x == IF sourceIsNT THEN n ELSE b
        y == IF sourceIsNT THEN b ELSE n
        out == TradeAmountOut(x, y, a, p.tradingFeePPM)
    IN [amount |-> out,
        feeAmount |-> TradeFee(a, p.tradingFeePPM),
        newBaseTokenTradingLiquidity |-> IF sourceIsNT THEN y - out ELSE x + a,
        newNetworkTokenTradingLiquidity |-> IF sourceIsNT THEN x + a ELSE y - out]

TradePool(source, target) == IF source = NT THEN target ELSE source

TradeOutcomeIgnoringRate(trader, source, target, amount, minReturnAmount) ==
    IF ~NonReentrant THEN ReentrantCall
    ELSE IF amount = 0 \/ minReturnAmount = 0 THEN "ZeroValue"
    ELSE IF source = target THEN "InvalidTokens"
    ELSE IF ~PoolExists(TradePool(source, target)) THEN "InvalidToken"
    ELSE LET t == TradePool(source, target)
             p == pools[t]
             h == TradeHop(p, source = NT, amount)
         IN IF t \notin settings.whitelist THEN "NotWhitelisted"
            ELSE IF ~p.tradingEnabled THEN "TradingDisabled"
            ELSE IF h.amount < minReturnAmount THEN "ReturnAmountTooLow"
            ELSE IF balances[source][trader] < amount \/ balances[target][MasterVault] < h.amount
                 THEN "ERC20: transfer amount exceeds balance"
            ELSE "ok"

TradeOutcome(trader, source, target, amount, minReturnAmount) ==
    IF ~NonReentrant THEN ReentrantCall
    ELSE IF amount = 0 \/ minReturnAmount = 0 THEN "ZeroValue"
    ELSE IF source = target THEN "InvalidTokens"
    ELSE IF ~PoolExists(TradePool(source, target)) THEN "InvalidToken"
    ELSE LET t == TradePool(source, target)
             p == pools[t]
             h == TradeHop(p, source = NT, amount)
         IN IF t \notin settings.whitelist THEN "NotWhitelisted"
            ELSE IF ~p.tradingEnabled THEN "TradingDisabled"
            ELSE IF h.amount < minReturnAmount THEN "ReturnAmountTooLow"
            ELSE IF ~IsStable(h.newBaseTokenTradingLiquidity,
                              h.newNetworkTokenTradingLiquidity,
                              UpdatedAverageRate(p, time).rate,
                              settings.averageRateMaxDeviationPPM) THEN "RateUnstable"
            ELSE IF balances[source][trader] < amount \/ balances[target][MasterVault] < h.amount
                 THEN "ERC20: transfer amount exceeds balance"
            ELSE "ok"

TradeEffect(trader, beneficiary, source, target, amount) ==
    LET t == TradePool(source, target)
        p == pools[t]
        h == TradeHop(p, source = NT, amount)
    IN /\ pools' = [pools EXCEPT ![t] =
               [p EXCEPT !.baseTokenTradingLiquidity = h.newBaseTokenTradingLiquidity,
                         !.networkTokenTradingLiquidity = h.newNetworkTokenTradingLiquidity,
                         !.tradingLiquidityProduct =
                             LiquidityProduct(h.newBaseTokenTradingLiquidity,
                                              h.newNetworkTokenTradingLiquidity),
                         !.averageRate = UpdatedAverageRate(p, time),
                         !.stakedBalance = IF source = NT THEN @ + h.feeAmount ELSE @]]
       /\ masterPool' = [masterPool EXCEPT !.stakedBalance =
                             IF source = NT THEN @ ELSE @ + h.feeAmount]
       /\ balances' = [balances EXCEPT ![source][trader] = @ - amount,
                                       ![source][MasterVault] = @ + amount,
                                       ![target][MasterVault] = @ - h.amount,
                                       ![target][beneficiary] = @ + h.amount]
       /\ UNCHANGED <<settings, poolTokens, requests, nextId>>

Trade(trader, source, target, amount, minReturnAmount) ==
    /\ Idle
    /\ TradeOutcome(trader, source, target, amount, minReturnAmount) = "ok"
    /\ TradeEffect(trader, trader, source, target, amount)
    /\ Plain
    /\ Operation
    /\ UNCHANGED time

\* the account a trade pays: the trader when the zero address is passed
TradeBeneficiaryAlwaysTrader(trader, beneficiaryAddress) == trader

TradeBeneficiary(trader, beneficiaryAddress) ==
    IF beneficiaryAddress = ZERO_ADDRESS THEN trader ELSE beneficiaryAddress

\* the pool's own checks of one hop
TradeHopOutcome(t, sourceIsNT, amount, minReturnAmount) ==
    LET p == pools[t]
        h == TradeHop(p, sourceIsNT, amount)
    IN IF t \notin settings.whitelist THEN "NotWhitelisted"
       ELSE IF ~p.tradingEnabled THEN "TradingDisabled"
       ELSE IF h.amount < minReturnAmount THEN "ReturnAmountTooLow"
       ELSE IF ~IsStable(h.newBaseTokenTradingLiquidity,
                         h.newNetworkTokenTradingLiquidity,
                         UpdatedAverageRate(p, time).rate,
                         settings.averageRateMaxDeviationPPM) THEN "RateUnstable"
       ELSE "ok"

\* the pool after a hop; the fee of a hop towards the base token accrues to
\* the pool's staked balance
PoolAfterHopFeeToLiquidity(p, sourceIsNT, h) ==
    [p EXCEPT !.baseTokenTradingLiquidity = h.newBaseTokenTradingLiquidity,
              !.networkTokenTradingLiquidity =
                  h.newNetworkTokenTradingLiquidity
                      + (IF sourceIsNT THEN 0 ELSE h.feeAmount),
              !.tradingLiquidityProduct =
                  LiquidityProduct(h.newBaseTokenTradingLiquidity,
                                   h.newNetworkTokenTradingLiquidity
                                       + (IF sourceIsNT THEN 0 ELSE h.feeAmount)),
              !.averageRate = UpdatedAverageRate(p, time)]

PoolAfterHop(p, sourceIsNT, h) ==
    [p EXCEPT !.baseTokenTradingLiquidity = h.newBaseTokenTradingLiquidity,
              !.networkTokenTradingLiquidity = h.newNetworkTokenTradingLiquidity,
              !.tradingLiquidityProduct =
                  LiquidityProduct(h.newBaseTokenTradingLiquidity,
                                   h.newNetworkTokenTradingLiquidity),
              !.averageRate = UpdatedAverageRate(p, time),
              !.stakedBalance = IF sourceIsNT THEN @ + h.feeAmount ELSE @]

\* base token to base token: the source pool sells the base token for the
\* network token, the target pool sells its base token for that amount
TradeBaseToBaseHops(source, target, amount) ==
    LET first == TradeHop(pools[source], FALSE, amount)
    IN [first |-> first, second |-> TradeHop(pools[target], TRUE, first.amount)]

TradeBaseToBaseOutcome(trader, source, target, amount, minReturnAmount) ==
    IF ~NonReentrant THEN ReentrantCall
    ELSE IF amount = 0 \/ minReturnAmount = 0 THEN "ZeroValue"
    ELSE IF source = target THEN "InvalidTokens"
    ELSE IF ~PoolExists(source) \/ ~PoolExists(target) THEN "InvalidToken"
    ELSE LET hops == TradeBaseToBaseHops(source, target, amount)
             first == TradeHopOutcome(source, FALSE, amount, MIN_RETURN_AMOUNT)
             second == TradeHopOutcome(target, TRUE, hops.first.amount, minReturnAmount)
         IN IF first # "ok" THEN first
            ELSE IF second # "ok" THEN second
            ELSE IF balances[source][trader] < amount
                    \/ balances[target][MasterVault] < hops.second.amount
                 THEN "ERC20: transfer amount exceeds balance"
            ELSE "ok"

TradeBaseToBaseEffectThroughTrader(trader, beneficiary, source, target, amount) ==
    LET hops == TradeBaseToBaseHops(source, target, amount)
    IN /\ pools' = [pools EXCEPT ![source] = PoolAfterHop(pools[source], FALSE, hops.first),
                                 ![target] = PoolAfterHop(pools[target], TRUE, hops.second)]
       /\ masterPool' = [masterPool EXCEPT !.stakedBalance = @ + hops.first.feeAmount]
       /\ balances' = [balances EXCEPT ![source][trader] = @ - amount,
                                       ![source][MasterVault] = @ + amount,
                                       ![NT][MasterVault] = @ - hops.first.amount,
                                       ![NT][trader] = @ + hops.first.amount,
                                       ![target][MasterVault] = @ - hops.second.amount,
                                       ![target][beneficiary] = @ + hops.second.amount]
       /\ UNCHANGED <<settings, poolTokens, requests, nextId>>

TradeBaseToBaseEffect(trader, beneficiary, source, target, amount) ==
    LET hops == TradeBaseToBaseHops(source, target, amount)
    IN /\ pools' = [pools EXCEPT ![source] = PoolAfterHop(pools[source], FALSE, hops.first),
                                 ![target] = PoolAfterHop(pools[target], TRUE, hops.second)]
       /\ masterPool' = [masterPool EXCEPT !.stakedBalance = @ + hops.first.feeAmount]
       /\ balances' = [balances EXCEPT ![source][trader] = @ - amount,
                                       ![source][MasterVault] = @ + amount,
                                       ![target][MasterVault] = @ - hops.second.amount,
                                       ![target][beneficiary] = @ + hops.second.amount]
       /\ UNCHANGED <<settings, poolTokens, requests, nextId>>

\* the outcome of trade(source, target, amount, minReturnAmount, beneficiary)
\* on either route
TradeRouteOutcome(trader, source, target, amount, minReturnAmount) ==
    IF source # NT /\ target # NT
    THEN TradeBaseToBaseOutcome(trader, source, target, amount, minReturnAmount)
    ELSE TradeOutcome(trader, source, target, amount, minReturnAmount)

\* a one-hop trade paid to the beneficiary; at most MaxTrades operations
\* precede a trade
TradeTo(trader, beneficiaryAddress, source, target, amount, minReturnAmount) ==
    /\ Idle
    /\ ops < MaxTrades
    /\ source = NT \/ target = NT
    /\ TradeOutcome(trader, source, target, amount, minReturnAmount) = "ok"
    /\ TradeEffect(trader, TradeBeneficiary(trader, beneficiaryAddress),
                   source, target, amount)
    /\ Plain
    /\ Operation
    /\ UNCHANGED time

\* a two-hop trade paid to the beneficiary
TradeBaseToBase(trader, beneficiaryAddress, source, target, amount, minReturnAmount) ==
    /\ Idle
    /\ ops < MaxTrades
    /\ source # NT /\ target # NT
    /\ TradeBaseToBaseOutcome(trader, source, target, amount, minReturnAmount) = "ok"
    /\ TradeBaseToBaseEffect(trader, TradeBeneficiary(trader, beneficiaryAddress),
                             source, target, amount)
    /\ Plain
    /\ Operation
    /\ UNCHANGED time

\* a trade the Network turns down
TradeRejected(trader, source, target, amount, minReturnAmount) ==
    /\ Idle
    /\ Rejected(TradeRouteOutcome(trader, source, target, amount, minReturnAmount), "trade")

(* ------------------------------ vaults -------------------------------- *)
\* anyone may send base tokens to the external protection vault
FundExternalProtectionVault(from, t, amount) ==
    /\ Idle
    /\ balances[t][from] >= amount
    /\ balances[t][ExternalProtectionVault] = 0
    /\ balances' = [balances EXCEPT ![t][from] = @ - amount,
                                    ![t][ExternalProtectionVault] = @ + amount]
    /\ Plain
    /\ Operation
    /\ UNCHANGED <<settings, pools, masterPool, poolTokens, requests, nextId, time>>

(* ---------------------------- flash-loans ----------------------------- *)
FlashLoanFeeNone(amount, flashLoanFeePPM) == 0

FlashLoanFee(amount, flashLoanFeePPM) == MulDivF(amount, flashLoanFeePPM, PPM_RESOLUTION)

FlashLoanOutcome(sender, t, amount) ==
    IF ~NonReentrant THEN ReentrantCall
    ELSE IF amount = 0 THEN "ZeroValue"
    ELSE IF t # NT /\ t \notin settings.whitelist THEN "NotWhitelisted"
    ELSE IF balances[t][MasterVault] < amount THEN "ERC20: transfer amount exceeds balance"
    ELSE "ok"

\* steps 1-3: snapshot, fee, transfer to the recipient; the callback then runs
FlashLoan(sender, t, amount) ==
    /\ Idle
    /\ FlashLoanOutcome(sender, t, amount) = "ok"
    /\ txStart' = core
    /\ locked' = TRUE
    /\ pc' = "callback"
    /\ loan' = [token |-> t, amount |-> amount,
                feeAmount |-> FlashLoanFee(amount, settings.flashLoanFeePPM),
                prevBalance |-> balances[t][Network],
                prevVaultBalance |-> balances[t][MasterVault],
                sender |-> sender]
    /\ balances' = [balances EXCEPT ![t][MasterVault] = @ - amount,
                                    ![t][Recipient] = @ + amount]
    /\ result' = NoResult
    /\ loanEvents' = << >>
    /\ UNCHANGED accessVars
    /\ lastLoan' = NoLastLoan
    /\ ops < MaxOps
    /\ UNCHANGED <<settings, pools, masterPool, poolTokens, requests, nextId, time, ops, adminOps>>
    /\ UNCHANGED registryVars

RevertLoanKeepingBalances(err, call) ==
    /\ settings' = txStart.settings
    /\ pools' = txStart.pools
    /\ masterPool' = txStart.masterPool
    /\ balances' = balances
    /\ poolTokens' = txStart.poolTokens
    /\ requests' = txStart.requests
    /\ nextId' = txStart.nextId
    /\ locked' = FALSE
    /\ pc' = "idle"
    /\ loan' = NoLoan
    /\ txStart' = NoSnapshot
    /\ result' = [outcome |-> err, raisedBy |-> call]
    /\ loanEvents' = << >>
    /\ UNCHANGED accessVars
    /\ lastLoan' = NoLastLoan
    /\ UNCHANGED <<time, ops, adminOps, registryVars>>

\* a revert of the running flash-loan: the state at its start is restored
RevertLoan(err, call) ==
    /\ settings' = txStart.settings
    /\ pools' = txStart.pools
    /\ masterPool' = txStart.masterPool
    /\ balances' = txStart.balances
    /\ poolTokens' = txStart.poolTokens
    /\ requests' = txStart.requests
    /\ nextId' = txStart.nextId
    /\ locked' = FALSE
    /\ pc' = "idle"
    /\ loan' = NoLoan
    /\ txStart' = NoSnapshot
    /\ result' = [outcome |-> err, raisedBy |-> call]
    /\ loanEvents' = << >>
    /\ UNCHANGED accessVars
    /\ lastLoan' = NoLastLoan
    /\ UNCHANGED <<time, ops, adminOps, registryVars>>

\* what the callback may send back
ReturnAmounts ==
    {loan.amount - 1, loan.amount, loan.amount + loan.feeAmount,
     loan.amount + loan.feeAmount + 1}

FlashLoanReturnOutcomeUnchecked(returned) == "ok"

\* step 5, after the returned amount was forwarded to the master vault
FlashLoanReturnOutcome(returned) ==
    IF balances[loan.token][Network] + returned - loan.prevBalance
         + balances[loan.token][MasterVault] < loan.prevVaultBalance + loan.feeAmount
    THEN "InsufficientFlashLoanReturn"
    ELSE "ok"

CreditFlashLoanFeeToMasterPool(t, feeAmount) ==
    /\ pools' = pools
    /\ masterPool' = [masterPool EXCEPT !.stakedBalance = @ + feeAmount]

\* the fee is credited to the staked balance of the borrowed token
CreditFlashLoanFee(t, feeAmount) ==
    /\ pools' = IF t = NT THEN pools
                ELSE [pools EXCEPT ![t].stakedBalance = @ + feeAmount]
    /\ masterPool' = IF t = NT THEN [masterPool EXCEPT !.stakedBalance = @ + feeAmount]
                     ELSE masterPool

\* steps 4-6: the callback sends `returned` to the Network and returns
FlashLoanReturn(returned) ==
    /\ pc = "callback"
    /\ returned <= balances[loan.token][Recipient]
    /\ IF FlashLoanReturnOutcome(returned) # "ok"
       THEN RevertLoan(FlashLoanReturnOutcome(returned), "flashLoan")
       ELSE /\ balances' = [balances EXCEPT
                    ![loan.token][Recipient] = @ - returned,
                    ![loan.token][MasterVault] =
                        @ + (balances[loan.token][Network] + returned - loan.prevBalance),
                    ![loan.token][Network] = loan.prevBalance]
            /\ CreditFlashLoanFee(loan.token, loan.feeAmount)
            /\ locked' = FALSE
            /\ pc' = "idle"
            /\ loan' = NoLoan
            /\ txStart' = NoSnapshot
            /\ result' = [outcome |-> "ok", raisedBy |-> "none"]
            /\ loanEvents' = <<"FlashLoanCompleted", "FeesCollected">>
            /\ UNCHANGED accessVars
            /\ lastLoan' = [token |-> loan.token, amount |-> loan.amount,
                            feeAmount |-> loan.feeAmount, returned |-> returned]
            /\ ops' = ops + 1
            /\ UNCHANGED <<settings, poolTokens, requests, nextId, time, adminOps, registryVars>>

\* the callback calls back into a Network entry point; a failure of the
\* nested call reverts the callback and with it the flash-loan
InCallback ==
    /\ result' = NoResult
    /\ loanEvents' = << >>
    /\ UNCHANGED accessVars
    /\ lastLoan' = NoLastLoan
    /\ UNCHANGED <<time, locked, pc, loan, txStart, ops, adminOps, registryVars>>

ReenterDeposit(t, amount) ==
    /\ pc = "callback"
    /\ IF DepositOutcome(Recipient, t, amount) # "ok"
       THEN RevertLoan(DepositOutcome(Recipient, t, amount), "deposit")
       ELSE DepositEffect(Recipient, "lp", t, amount) /\ InCallback

ReenterWithdraw(id) ==
    /\ pc = "callback"
    /\ IF WithdrawOutcome("lp", id) # "ok"
       THEN RevertLoan(WithdrawOutcome("lp", id), "withdraw")
       ELSE WithdrawEffect("lp", id) /\ InCallback

ReenterTrade(source, target, amount) ==
    /\ pc = "callback"
    /\ IF TradeOutcome(Recipient, source, target, amount, 1) # "ok"
       THEN RevertLoan(TradeOutcome(Recipient, source, target, amount, 1), "trade")
       ELSE TradeEffect(Recipient, Recipient, source, target, amount) /\ InCallback

ReenterFlashLoan(t, amount) ==
    /\ pc = "callback"
    /\ IF FlashLoanOutcome(Recipient, t, amount) # "ok"
       THEN RevertLoan(FlashLoanOutcome(Recipient, t, amount), "nested flashLoan")
       ELSE /\ balances' = [balances EXCEPT ![t][MasterVault] = @ - amount,
                                            ![t][Recipient] = @ + amount]
            /\ UNCHANGED <<settings, pools, masterPool, poolTokens, requests, nextId>>
            /\ InCallback

(* ------------------- Network: pool collections ------------------------ *)
\* addPoolCollection: the collection is registered and becomes the latest of
\* its type
AddPoolCollection(c) ==
    /\ Idle
    /\ c \notin registry.poolCollections
    /\ registry' = [registry EXCEPT !.poolCollections = @ \cup {c},
                                    !.latestPoolCollections[PoolType(c)] = c]
    /\ result' = NoResult
    /\ loanEvents' = << >>
    /\ UNCHANGED accessVars
    /\ lastLoan' = NoLastLoan
    /\ UNCHANGED <<coreVars, collectionPools, time, locked, pc, loan, txStart, ops, adminOps>>

SetLatestPoolCollection(c) ==
    /\ Idle
    /\ c \in registry.poolCollections
    /\ registry.latestPoolCollections[PoolType(c)] # c
    /\ registry' = [registry EXCEPT !.latestPoolCollections[PoolType(c)] = c]
    /\ result' = NoResult
    /\ loanEvents' = << >>
    /\ UNCHANGED accessVars
    /\ lastLoan' = NoLastLoan
    /\ UNCHANGED <<coreVars, collectionPools, time, locked, pc, loan, txStart, ops, adminOps>>

\* removePoolCollection(c, newLatest): the collection must be registered and
\* empty, the alternative registered or zero; the alternative becomes the
\* latest collection of the type
RemovePoolCollectionOutcomeIgnoringPools(c, newLatest) ==
    IF c \notin registry.poolCollections THEN "DoesNotExist"
    ELSE IF newLatest # ZERO_ADDRESS /\ newLatest \notin registry.poolCollections
         THEN "DoesNotExist"
    ELSE "ok"

RemovePoolCollectionOutcome(c, newLatest) ==
    IF c \notin registry.poolCollections THEN "DoesNotExist"
    ELSE IF newLatest # ZERO_ADDRESS /\ newLatest \notin registry.poolCollections
         THEN "DoesNotExist"
    ELSE IF collectionPools[c] # {} THEN "NotEmpty"
    ELSE "ok"

\* a removal that replaces the latest collection only when it removes it
RemovePoolCollectionKeepingLatest(c, newLatest) ==
    /\ Idle
    /\ IF RemovePoolCollectionOutcome(c, newLatest) # "ok"
       THEN Rejected(RemovePoolCollectionOutcome(c, newLatest), "removePoolCollection")
       ELSE /\ registry' = [registry EXCEPT
                    !.poolCollections = @ \ {c},
                    !.latestPoolCollections[PoolType(c)] =
                        IF @ = c THEN newLatest ELSE @]
            /\ Completed("removePoolCollection")
            /\ UNCHANGED <<coreVars, collectionPools, time, ops, adminOps>>

RemovePoolCollection(c, newLatest) ==
    /\ Idle
    /\ IF RemovePoolCollectionOutcome(c, newLatest) # "ok"
       THEN Rejected(RemovePoolCollectionOutcome(c, newLatest), "removePoolCollection")
       ELSE /\ registry' = [registry EXCEPT !.poolCollections = @ \ {c},
                                            !.latestPoolCollections[PoolType(c)] = newLatest]
            /\ Completed("removePoolCollection")
            /\ UNCHANGED <<coreVars, collectionPools, time, ops, adminOps>>

\* Network.createPool: the token and the type are checked by the Network, the
\* whitelist and the existing pool by the latest collection of the type
NetworkCreatePoolOutcome(poolType, t) ==
    IF t = ZERO_ADDRESS THEN "InvalidAddress"
    ELSE IF t = NT THEN "InvalidToken"
    ELSE IF registry.latestPoolCollections[poolType] = ZERO_ADDRESS THEN "InvalidType"
    ELSE CreatePoolOutcome(t)

CreatePool(poolType, t) ==
    /\ Idle
    /\ IF NetworkCreatePoolOutcome(poolType, t) # "ok"
       THEN Rejected(NetworkCreatePoolOutcome(poolType, t), "createPool")
       ELSE LET c == registry.latestPoolCollections[poolType]
            IN /\ pools' = [pools EXCEPT ![t] = NewPool]
               /\ collectionPools' = [collectionPools EXCEPT ![c] = @ \cup {t}]
               /\ registry' = [registry EXCEPT !.collectionByPool[t] = c,
                                               !.liquidityPools = @ \cup {t}]
               /\ Completed("createPool")
               /\ Operation
               /\ UNCHANGED <<settings, masterPool, balances, poolTokens, requests,
                              nextId, time>>

\* the Pool record the upgrader hands to the target collection, field by field
MigratedPoolDataWithoutAverageRate(p) ==
    [p EXCEPT !.averageRate = [rate |-> ZeroFraction, time |-> 0]]

MigratedPoolData(p) ==
    [exists |-> p.exists,
     poolTokenSupply |-> p.poolTokenSupply,
     tradingFeePPM |-> p.tradingFeePPM,
     tradingEnabled |-> p.tradingEnabled,
     depositingEnabled |-> p.depositingEnabled,
     baseTokenTradingLiquidity |-> p.baseTokenTradingLiquidity,
     networkTokenTradingLiquidity |-> p.networkTokenTradingLiquidity,
     averageRate |-> p.averageRate,
     tradingLiquidityProduct |-> p.tradingLiquidityProduct,
     stakedBalance |-> p.stakedBalance,
     initialRate |-> p.initialRate,
     depositLimit |-> p.depositLimit]

MigratePoolOutKeeping(held, pool) == held

\* migrate_out: the source collection gives the pool up
MigratePoolOut(held, pool) == held \ {pool}

\* migrate_in: the target collection takes the pool
MigratePoolIn(held, pool) == held \cup {pool}

UpgradePoolOutcomeAnyCollection(st, pool) ==
    IF pool = ZERO_ADDRESS THEN "InvalidPool"
    ELSE IF st.registry.collectionByPool[pool] = ZERO_ADDRESS THEN "InvalidPool"
    ELSE "ok"

\* PoolCollectionUpgrader.upgradePool: the pool must be in a collection and a
\* newer collection of the same type must be the latest one
UpgradePoolOutcome(st, pool) ==
    IF pool = ZERO_ADDRESS THEN "InvalidPool"
    ELSE IF st.registry.collectionByPool[pool] = ZERO_ADDRESS THEN "InvalidPool"
    ELSE LET prev == st.registry.collectionByPool[pool]
             new == st.registry.latestPoolCollections[PoolType(prev)]
         IN IF new = ZERO_ADDRESS \/ new = prev \/ Version(new) <= Version(prev)
            THEN "InvalidPoolCollection"
            ELSE "ok"

UpgradePoolEffect(st, pool) ==
    LET prev == st.registry.collectionByPool[pool]
        new == st.registry.latestPoolCollections[PoolType(prev)]
    IN [registry |-> [st.registry EXCEPT !.collectionByPool[pool] = new],
        collectionPools |->
            [c \in Collections |->
                IF c = new THEN MigratePoolIn(st.collectionPools[c], pool)
                ELSE IF c = prev THEN MigratePoolOut(st.collectionPools[c], pool)
                ELSE st.collectionPools[c]],
        pools |-> [st.pools EXCEPT ![pool] = MigratedPoolData(@)]]

\* upgradePools: the pools of the batch are upgraded in order; the first pool
\* that cannot be upgraded fails the call
RECURSIVE UpgradeBatch(_, _)
UpgradeBatch(st, batch) ==
    IF batch = << >> THEN [error |-> "ok", state |-> st]
    ELSE IF UpgradePoolOutcome(st, Head(batch)) # "ok"
         THEN [error |-> UpgradePoolOutcome(st, Head(batch)), state |-> st]
    ELSE UpgradeBatch(UpgradePoolEffect(st, Head(batch)), Tail(batch))

UpgradeBatches ==
    {<<t>> : t \in BaseTokens}
        \cup {<<ZERO_ADDRESS, t>> : t \in BaseTokens}
        \cup {<<t, ZERO_ADDRESS>> : t \in BaseTokens}
        \cup {<<t, t>> : t \in BaseTokens}

UpgradeStart == [registry |-> registry, collectionPools |-> collectionPools, pools |-> pools]

UpgradePools(batch) ==
    /\ Idle
    /\ LET r == UpgradeBatch(UpgradeStart, batch)
       IN IF r.error # "ok"
          THEN Rejected(r.error, "upgradePools")
          ELSE /\ registry' = r.state.registry
               /\ collectionPools' = r.state.collectionPools
               /\ pools' = r.state.pools
               /\ Completed("upgradePools")
               /\ UNCHANGED <<settings, masterPool, balances, poolTokens, requests,
                              nextId, time, ops, adminOps>>

(* --------------------------- clock ------------------------------------ *)
AdvanceTime(bound) ==
    /\ Idle
    /\ time < bound
    /\ time' = time + 1
    /\ Plain
    /\ UNCHANGED <<coreVars, ops, adminOps>>

Admin ==
    \/ \E t \in BaseTokens : AddTokenToWhitelist(t)
    \/ \E t \in BaseTokens : RemoveTokenFromWhitelist(t)
    \/ \E t \in BaseTokens, v \in FundingLimitValues : SetFundingLimit(t, v)
    \/ \E v \in MinLiquidityValues : SetMinLiquidityForTrading(v)
    \/ \E v \in DeviationValuesPPM : SetAverageRateMaxDeviationPPM(v)
    \/ \E v \in FeeValuesPPM : SetWithdrawalFeePPM(v)
    \/ \E v \in FeeValuesPPM : SetFlashLoanFeePPM(v)
    \/ \E t \in BaseTokens, v \in DepositLimitValues : SetDepositLimit(t, v)
    \/ \E t \in BaseTokens, v \in FeeValuesPPM : SetTradingFeePPM(t, v)
    \/ \E t \in BaseTokens, r1 \in VirtualRates, r2 \in VirtualRates : EnableTrading(t, r1, r2)
    \/ \E t \in BaseTokens : DisableTrading(t)

Liquidity ==
    \/ \E pr \in Providers, t \in BaseTokens, a \in DepositAmounts : Deposit(pr, t, a)
    \/ \E pr \in Providers, t \in BaseTokens, a \in PoolTokenAmounts : InitWithdrawal(pr, t, a)
    \/ \E pr \in Providers, id \in 1..MaxRequests : CancelWithdrawal(pr, id)
    \/ \E pr \in Providers, id \in 1..MaxRequests : Withdraw(pr, id)

\* a trade of a base token for the network token, and the reverse
TradeBaseToNetwork ==
    \E tr \in Traders, t \in BaseTokens, a \in TradeAmounts, m \in MinReturnAmounts :
        Trade(tr, t, NT, a, m)

TradeNetworkToBase ==
    \E tr \in Traders, t \in BaseTokens, a \in TradeAmounts, m \in MinReturnAmounts :
        Trade(tr, NT, t, a, m)

Trading ==
    \/ TradeBaseToNetwork
    \/ TradeNetworkToBase
    \/ \E tr \in Traders, t \in BaseTokens : FundExternalProtectionVault(tr, t, 1)

\* the callback calls back into the Network
Reenter ==
    \/ \E t \in BaseTokens, a \in DepositAmounts : ReenterDeposit(t, a)
    \/ \E id \in 1..MaxRequests : ReenterWithdraw(id)
    \/ \E t \in BaseTokens, a \in TradeAmounts : ReenterTrade(t, NT, a)
    \/ \E t \in Tokens, a \in LoanAmounts : ReenterFlashLoan(t, a)

FlashLoans ==
    \/ \E tr \in Traders, t \in Tokens, a \in LoanAmounts : FlashLoan(tr, t, a)
    \/ \E r \in ReturnAmounts : FlashLoanReturn(r)
    \/ Reenter

Next ==
    \/ Admin
    \/ Liquidity
    \/ Trading
    \/ FlashLoans
    \/ AdvanceTime(MaxTime)

Spec == Init /\ [][Next]_vars

\* the withdrawal lifecycle on a clock that runs past the withdrawal window
NextTiming ==
    \/ \E t \in BaseTokens : AddTokenToWhitelist(t)
    \/ \E t \in BaseTokens : RemoveTokenFromWhitelist(t)
    \/ Liquidity
    \/ AdvanceTime(MaxClock)

SpecTiming == Init /\ [][NextTiming]_vars

\* the withdrawal lifecycle with the calls that PendingWithdrawals turns down
Callers == Providers \cup Traders

NextRequests ==
    \/ NextTiming
    \/ \E caller \in Callers, id \in 1..MaxRequests : WithdrawRejected(caller, id)

SpecRequests == Init /\ [][NextRequests]_vars

\* pool upgrades: a second collection is registered next to the deployed one
\* and the pool is moved to it, with deposits and trades before and after
NextUpgrade ==
    \/ \E c \in Collections : AddPoolCollection(c)
    \/ \E c \in Collections : SetLatestPoolCollection(c)
    \/ \E batch \in UpgradeBatches : UpgradePools(batch)
    \/ \E pr \in Providers, t \in BaseTokens, a \in DepositAmounts : Deposit(pr, t, a)
    \/ \E t \in BaseTokens, r1 \in VirtualRates, r2 \in VirtualRates : EnableTrading(t, r1, r2)
    \/ TradeBaseToNetwork
    \/ TradeNetworkToBase

SpecUpgrade == Init /\ [][NextUpgrade]_vars

\* the system before any pool collection is registered and any token
\* whitelisted: no pools
InitRegistry ==
    /\ AccessDeployed
    /\ settings = [whitelist |-> {},
                   fundingLimit |-> [t \in BaseTokens |-> 0],
                   minLiquidityForTrading |-> 2,
                   averageRateMaxDeviationPPM |-> PPM_RESOLUTION,
                   withdrawalFeePPM |-> 500000,
                   flashLoanFeePPM |-> 0]
    /\ pools = [t \in BaseTokens |-> NoPool]
    /\ masterPool = NewMasterPool
    /\ balances = InitialBalances
    /\ poolTokens = [t \in Tokens |-> [h \in Holders |-> 0]]
    /\ requests = << >>
    /\ nextId = 1
    /\ time = 0
    /\ locked = FALSE
    /\ pc = "idle"
    /\ loan = NoLoan
    /\ txStart = NoSnapshot
    /\ result = NoResult
    /\ loanEvents = << >>
    /\ lastLoan = NoLastLoan
    /\ ops = 0
    /\ adminOps = 0
    /\ registry = [poolCollections |-> {},
                   latestPoolCollections |-> [ty \in PoolTypes |-> ZERO_ADDRESS],
                   collectionByPool |-> [t \in BaseTokens |-> ZERO_ADDRESS],
                   liquidityPools |-> {}]
    /\ collectionPools = [c \in Collections |-> {}]

\* pool creation and upgrade from an empty registry
NextRegistry ==
    \/ \E c \in Collections : AddPoolCollection(c)
    \/ \E c \in Collections : SetLatestPoolCollection(c)
    \/ \E c \in Collections, alt \in Collections \cup {ZERO_ADDRESS} : RemovePoolCollection(c, alt)
    \/ \E t \in BaseTokens : AddTokenToWhitelist(t)
    \/ \E t \in BaseTokens : RemoveTokenFromWhitelist(t)
    \/ \E ty \in PoolTypes, t \in Tokens : CreatePool(ty, t)
    \/ \E batch \in UpgradeBatches : UpgradePools(batch)
    \/ \E t \in BaseTokens, v \in DepositLimitValues : SetDepositLimit(t, v)
    \/ \E pr \in Providers, t \in BaseTokens, a \in DepositAmounts : Deposit(pr, t, a)

SpecRegistry == InitRegistry /\ [][NextRegistry]_vars

\* a deposit limit above every amount of tokens in circulation
UnlimitedDeposits == LpFunds + TraderFunds + RecipientFunds

\* deposits after the fixture of the withdrawal tests: the deposit limit is
\* lifted, the provider has deposited 4 tokens and requested the withdrawal
\* of all pool tokens, and holds network tokens to deposit
InitDeposits ==
    /\ AccessDeployed
    /\ settings = [whitelist |-> BaseTokens,
                   fundingLimit |-> [t \in BaseTokens |-> 4],
                   minLiquidityForTrading |-> 2,
                   averageRateMaxDeviationPPM |-> PPM_RESOLUTION,
                   withdrawalFeePPM |-> 500000,
                   flashLoanFeePPM |-> 0]
    /\ pools = [t \in BaseTokens |-> [NewPool EXCEPT !.depositLimit = UnlimitedDeposits,
                                                     !.stakedBalance = 4,
                                                     !.poolTokenSupply = 4]]
    /\ masterPool = NewMasterPool
    /\ balances = [t \in Tokens \cup {GovToken} |-> [a \in Accounts |->
                     IF a \in Providers
                     THEN (IF t \in BaseTokens THEN InitialBalances[t][a] - 4
                           ELSE IF t = NT THEN LpNetworkFunds ELSE 0)
                     ELSE IF a = MasterVault /\ t \in BaseTokens THEN 4
                     ELSE InitialBalances[t][a]]]
    /\ poolTokens = [t \in Tokens |-> [h \in Holders |->
                       IF t \in BaseTokens /\ h = Custody THEN 4 ELSE 0]]
    /\ requests = (1 :> [provider |-> FixtureProvider,
                         poolToken |-> FixtureToken,
                         poolTokenAmount |-> 4,
                         createdAt |-> 0])
    /\ nextId = 2
    /\ time = 0
    /\ locked = FALSE
    /\ pc = "idle"
    /\ loan = NoLoan
    /\ txStart = NoSnapshot
    /\ result = NoResult
    /\ loanEvents = << >>
    /\ lastLoan = NoLastLoan
    /\ ops = 0
    /\ adminOps = 0
    /\ registry = [poolCollections |-> {PoolCollection},
                   latestPoolCollections |->
                       [ty \in PoolTypes |-> IF ty = StandardPoolType THEN PoolCollection
                                             ELSE ZERO_ADDRESS],
                   collectionByPool |-> [t \in BaseTokens |-> PoolCollection],
                   liquidityPools |-> BaseTokens]
    /\ collectionPools = [c \in Collections |->
                             IF c = PoolCollection THEN BaseTokens ELSE {}]

NetworkTokenAmounts == {1, 2}

NextDeposits ==
    \/ \E pr \in Providers, t \in BaseTokens, a \in DepositAmounts : Deposit(pr, t, a)
    \/ \E sender \in Traders, pr \in Providers, t \in BaseTokens, a \in DepositAmounts :
          DepositFor(sender, pr, t, a)
    \/ \E sender \in Callers, pr \in Providers, a \in NetworkTokenAmounts :
          NetworkTokenDeposit(sender, pr, a)
    \/ \E pr \in Providers, id \in 1..MaxRequests : Withdraw(pr, id)
    \/ \E t \in BaseTokens, r1 \in VirtualRates, r2 \in VirtualRates : EnableTrading(t, r1, r2)
    \/ \E v \in FeeValuesPPM : SetFlashLoanFeePPM(v)
    \/ \E tr \in Traders, t \in Tokens, a \in LoanAmounts : FlashLoan(tr, t, a)
    \/ \E r \in ReturnAmounts : FlashLoanReturn(r)
    \/ AdvanceTime(MaxTime)

SpecDeposits == InitDeposits /\ [][NextDeposits]_vars

\* the average rate the tests inject to make the spot rate n / b unstable:
\* 1.5% off the spot rate (the fraction is written in lowest terms of the
\* two factors, both multiples of 5000)
UnstableAverageRate(b, n) ==
    [n |-> n * (PPM_RESOLUTION \div 5000),
     d |-> b * ((PPM_RESOLUTION + MAX_DEVIATION + 5000) \div 5000)]

\* deposits and withdrawals on a trading pool whose spot rate is stable or
\* was made unstable: the provider has deposited 4 tokens and requested the
\* withdrawal of all pool tokens, the pool trades with liquidity (3, 2), the
\* deviation bound is 1% and the deposit limit is 2 above the staked balance
InitStability ==
    /\ AccessDeployed
    /\ settings = [whitelist |-> BaseTokens,
                   fundingLimit |-> [t \in BaseTokens |-> 4],
                   minLiquidityForTrading |-> 2,
                   averageRateMaxDeviationPPM |-> MAX_DEVIATION,
                   withdrawalFeePPM |-> 500000,
                   flashLoanFeePPM |-> 0]
    /\ \E rate \in {[n |-> 2, d |-> 3], UnstableAverageRate(3, 2)} :
          pools = [t \in BaseTokens |->
                     [NewPool EXCEPT !.depositLimit = 6,
                                     !.stakedBalance = 4,
                                     !.poolTokenSupply = 4,
                                     !.tradingEnabled = TRUE,
                                     !.baseTokenTradingLiquidity = 3,
                                     !.networkTokenTradingLiquidity = 2,
                                     !.tradingLiquidityProduct = LiquidityProduct(3, 2),
                                     !.averageRate = [rate |-> rate, time |-> 0]]]
    /\ masterPool = [stakedBalance |-> 2,
                     currentPoolFunding |-> [t \in BaseTokens |-> 2],
                     poolTokenSupply |-> 2,
                     poolTokenBalance |-> 2]
    /\ balances = [t \in Tokens \cup {GovToken} |-> [a \in Accounts |->
                     IF a \in Providers /\ t \in BaseTokens THEN InitialBalances[t][a] - 4
                     ELSE IF a = MasterVault /\ t \in BaseTokens THEN 4
                     ELSE IF a = MasterVault /\ t = NT THEN 2
                     ELSE InitialBalances[t][a]]]
    /\ poolTokens = [t \in Tokens |-> [h \in Holders |->
                       IF t \in BaseTokens /\ h = Custody THEN 4 ELSE 0]]
    /\ requests = (1 :> [provider |-> FixtureProvider,
                         poolToken |-> FixtureToken,
                         poolTokenAmount |-> 4,
                         createdAt |-> 0])
    /\ nextId = 2
    /\ time = 0
    /\ locked = FALSE
    /\ pc = "idle"
    /\ loan = NoLoan
    /\ txStart = NoSnapshot
    /\ result = NoResult
    /\ loanEvents = << >>
    /\ lastLoan = NoLastLoan
    /\ ops = 0
    /\ adminOps = 0
    /\ registry = [poolCollections |-> {PoolCollection},
                   latestPoolCollections |->
                       [ty \in PoolTypes |-> IF ty = StandardPoolType THEN PoolCollection
                                             ELSE ZERO_ADDRESS],
                   collectionByPool |-> [t \in BaseTokens |-> PoolCollection],
                   liquidityPools |-> BaseTokens]
    /\ collectionPools = [c \in Collections |->
                             IF c = PoolCollection THEN BaseTokens ELSE {}]

NextStability ==
    \/ \E pr \in Providers, t \in BaseTokens, a \in DepositAmounts : Deposit(pr, t, a)
    \/ \E sender \in Traders, pr \in Providers, t \in BaseTokens, a \in DepositAmounts :
          DepositFor(sender, pr, t, a)
    \/ \E sender \in Callers, t \in BaseTokens, a \in DepositAmounts :
          DepositRejected(sender, t, a)
    \/ \E pr \in Providers, id \in 1..MaxRequests : Withdraw(pr, id)
    \/ \E caller \in Callers, id \in 1..MaxRequests : WithdrawRejected(caller, id)
    \/ \E t \in BaseTokens : AddTokenToWhitelist(t)
    \/ \E t \in BaseTokens : RemoveTokenFromWhitelist(t)
    \/ \E v \in DeviationValuesPPM : SetAverageRateMaxDeviationPPM(v)
    \/ \E t \in BaseTokens, v \in DepositLimitValues : SetDepositLimit(t, v)
    \/ \E t \in BaseTokens, status \in BOOLEAN : EnableDepositing(t, status)
    \/ AdvanceTime(MaxTime)

SpecStability == InitStability /\ [][NextStability]_vars

\* trades between two pools: the two base tokens of the trade tests, each
\* pool trading with reserves (b, n) and staked balance b, the reserves held
\* by the master vault, the trader funded with every token
TradePools == {"TKN1", "TKN2"}
SourceReserves == {[b |-> 2, n |-> 8], [b |-> 1, n |-> 2]}
TargetReserves == {[b |-> 8, n |-> 2], [b |-> 16, n |-> 8]}
TradeInAmounts == {2, MaxTradeAmount}
Beneficiaries == {ZERO_ADDRESS, Recipient}

InitTrades ==
    /\ AccessDeployed
    /\ settings = [whitelist |-> TradePools,
                   fundingLimit |-> [t \in TradePools |-> MaxTradeAmount],
                   minLiquidityForTrading |-> 1,
                   averageRateMaxDeviationPPM |-> PPM_RESOLUTION,
                   withdrawalFeePPM |-> 0,
                   flashLoanFeePPM |-> 0]
    /\ \E r1 \in SourceReserves, r2 \in TargetReserves, fee \in FeeValuesPPM :
          LET r == [t \in TradePools |-> IF t = "TKN1" THEN r1 ELSE r2]
          IN /\ pools = [t \in TradePools |->
                           [NewPool EXCEPT !.tradingFeePPM = fee,
                                           !.depositLimit = r[t].b,
                                           !.stakedBalance = r[t].b,
                                           !.poolTokenSupply = r[t].b,
                                           !.tradingEnabled = TRUE,
                                           !.baseTokenTradingLiquidity = r[t].b,
                                           !.networkTokenTradingLiquidity = r[t].n,
                                           !.tradingLiquidityProduct =
                                               LiquidityProduct(r[t].b, r[t].n),
                                           !.averageRate =
                                               [rate |-> Reduced([n |-> r[t].n, d |-> r[t].b]),
                                                time |-> 0]]]
             /\ masterPool = [stakedBalance |-> r1.n + r2.n,
                              currentPoolFunding |-> [t \in TradePools |-> r[t].n],
                              poolTokenSupply |-> r1.n + r2.n,
                              poolTokenBalance |-> r1.n + r2.n]
             /\ balances = [t \in TradePools \cup {NT, GovToken} |-> [a \in Accounts |->
                              IF t = GovToken THEN 0
                              ELSE IF a \in Traders THEN MaxTradeAmount
                              ELSE IF a = MasterVault
                                   THEN (IF t = NT THEN r1.n + r2.n ELSE r[t].b)
                              ELSE 0]]
             /\ poolTokens = [t \in TradePools \cup {NT} |-> [h \in Holders |->
                                IF t \in TradePools /\ h \in Providers THEN r[t].b ELSE 0]]
    /\ requests = << >>
    /\ nextId = 1
    /\ time = 0
    /\ locked = FALSE
    /\ pc = "idle"
    /\ loan = NoLoan
    /\ txStart = NoSnapshot
    /\ result = NoResult
    /\ loanEvents = << >>
    /\ lastLoan = NoLastLoan
    /\ ops = 0
    /\ adminOps = 0
    /\ registry = [poolCollections |-> {PoolCollection},
                   latestPoolCollections |->
                       [ty \in PoolTypes |-> IF ty = StandardPoolType THEN PoolCollection
                                             ELSE ZERO_ADDRESS],
                   collectionByPool |-> [t \in TradePools |-> PoolCollection],
                   liquidityPools |-> TradePools]
    /\ collectionPools = [c \in Collections |->
                             IF c = PoolCollection THEN TradePools ELSE {}]

NextTrades ==
    \/ \E tr \in Traders, to \in Beneficiaries, t \in TradePools,
          a \in TradeInAmounts, m \in MinReturnAmounts : TradeTo(tr, to, t, NT, a, m)
    \/ \E tr \in Traders, to \in Beneficiaries, t \in TradePools,
          a \in TradeInAmounts, m \in MinReturnAmounts : TradeTo(tr, to, NT, t, a, m)
    \/ \E tr \in Traders, to \in Beneficiaries, t1 \in TradePools, t2 \in TradePools,
          a \in TradeInAmounts, m \in MinReturnAmounts : TradeBaseToBase(tr, to, t1, t2, a, m)
    \/ \E tr \in Traders, t1 \in TradePools \cup {NT}, t2 \in TradePools \cup {NT},
          a \in TradeInAmounts, m \in MinReturnAmounts : TradeRejected(tr, t1, t2, a, m)
    \/ \E t \in TradePools : DisableTrading(t)
    \/ \E v \in DeviationValuesPPM : SetAverageRateMaxDeviationPPM(v)

SpecTrades == InitTrades /\ [][NextTrades]_vars

\* deposits into a pool that its only provider has left: the provider
\* deposited 4, withdrew all pool tokens under the 50% withdrawal fee, and
\* the fee of 2 stayed in the master vault; flash-loans charge a 50% fee
InitSymmetry ==
    /\ AccessDeployed
    /\ settings = [whitelist |-> BaseTokens,
                   fundingLimit |-> [t \in BaseTokens |-> 4],
                   minLiquidityForTrading |-> 2,
                   averageRateMaxDeviationPPM |-> PPM_RESOLUTION,
                   withdrawalFeePPM |-> 500000,
                   flashLoanFeePPM |-> 500000]
    /\ pools = [t \in BaseTokens |-> [NewPool EXCEPT !.depositLimit = UnlimitedDeposits]]
    /\ masterPool = NewMasterPool
    /\ balances = [t \in Tokens \cup {GovToken} |-> [a \in Accounts |->
                     IF a \in Providers /\ t \in BaseTokens THEN InitialBalances[t][a] - 2
                     ELSE IF a = MasterVault /\ t \in BaseTokens THEN 2
                     ELSE InitialBalances[t][a]]]
    /\ poolTokens = [t \in Tokens |-> [h \in Holders |-> 0]]
    /\ requests = << >>
    /\ nextId = 2
    /\ time = 0
    /\ locked = FALSE
    /\ pc = "idle"
    /\ loan = NoLoan
    /\ txStart = NoSnapshot
    /\ result = NoResult
    /\ loanEvents = << >>
    /\ lastLoan = NoLastLoan
    /\ ops = 0
    /\ adminOps = 0
    /\ registry = [poolCollections |-> {PoolCollection},
                   latestPoolCollections |->
                       [ty \in PoolTypes |-> IF ty = StandardPoolType THEN PoolCollection
                                             ELSE ZERO_ADDRESS],
                   collectionByPool |-> [t \in BaseTokens |-> PoolCollection],
                   liquidityPools |-> BaseTokens]
    /\ collectionPools = [c \in Collections |->
                             IF c = PoolCollection THEN BaseTokens ELSE {}]

NextSymmetry ==
    \/ \E pr \in Providers, t \in BaseTokens, a \in DepositAmounts : Deposit(pr, t, a)
    \/ \E sender \in Traders, pr \in Providers, t \in BaseTokens, a \in DepositAmounts :
          DepositFor(sender, pr, t, a)
    \/ \E v \in FeeValuesPPM : SetWithdrawalFeePPM(v)
    \/ \E tr \in Traders, t \in BaseTokens, a \in LoanAmounts : FlashLoan(tr, t, a)
    \/ \E r \in ReturnAmounts : FlashLoanReturn(r)
    \/ AdvanceTime(MaxTime)

SpecSymmetry == InitSymmetry /\ [][NextSymmetry]_vars

(* --------------------- access control and the vault ------------------- *)
MaxVaultFunds == 2

IsAdmin(component, caller) == caller \in roles[component]

\* a completed call on a component outside the pools
AccessCompleted(call) ==
    /\ result' = [outcome |-> "ok", raisedBy |-> call]
    /\ loanEvents' = << >>
    /\ lastLoan' = NoLastLoan
    /\ UNCHANGED <<coreVars, time, locked, pc, loan, txStart, ops, adminOps, registryVars>>

\* the arguments of initialize: the Network takes the master pool, the pending
\* withdrawals and the pool collection upgrader, the vault takes none
ContractAddress == "0x1"
InitializeArgs(component) ==
    IF component = "network" THEN [1..3 -> {ZERO_ADDRESS, ContractAddress}] ELSE {<< >>}

InitializeOutcomeRepeatable(component, args) ==
    IF \E i \in DOMAIN args : args[i] = ZERO_ADDRESS THEN "InvalidAddress" ELSE "ok"

InitializeOutcome(component, args) ==
    IF \E i \in DOMAIN args : args[i] = ZERO_ADDRESS THEN "InvalidAddress"
    ELSE IF initialized[component] THEN "Initializable: contract is already initialized"
    ELSE "ok"

\* initialize by the deployer: the component is initialized and the deployer
\* becomes its admin
Initialize(component, args) ==
    /\ Idle
    /\ IF InitializeOutcome(component, args) # "ok"
       THEN Rejected(InitializeOutcome(component, args), "initialize")
       ELSE /\ initialized' = [initialized EXCEPT ![component] = TRUE]
            /\ roles' = [roles EXCEPT ![component] = {Deployer}]
            /\ UNCHANGED vault
            /\ AccessCompleted("initialize")

\* grantRole(ROLE_ADMIN, account) by an admin of the component
GrantRole(caller, component, account) ==
    /\ Idle
    /\ initialized[component]
    /\ IsAdmin(component, caller)
    /\ account \notin roles[component]
    /\ roles' = [roles EXCEPT ![component] = @ \cup {account}]
    /\ UNCHANGED <<vault, initialized>>
    /\ AccessCompleted("grantRole")

\* the admin-gated calls of the Network, by caller
\* a gate that lets every signer through
AdminGateOpen(component, caller) == caller \in Signers

AdminGate(component, caller) == IsAdmin(component, caller)

AddPoolCollectionBy(caller, c) ==
    /\ Idle
    /\ initialized["network"]
    /\ IF ~AdminGate("network", caller)
       THEN Rejected("AccessDenied", "addPoolCollection")
       ELSE AddPoolCollection(c)

RemovePoolCollectionBy(caller, c, newLatest) ==
    /\ Idle
    /\ initialized["network"]
    /\ IF ~AdminGate("network", caller)
       THEN Rejected("AccessDenied", "removePoolCollection")
       ELSE RemovePoolCollection(c, newLatest)

SetLatestPoolCollectionBy(caller, c) ==
    /\ Idle
    /\ initialized["network"]
    /\ IF ~AdminGate("network", caller)
       THEN Rejected("AccessDenied", "setLatestPoolCollection")
       ELSE SetLatestPoolCollection(c)

\* Vault.pause / unpause
PauseOutcome(caller) ==
    IF ~AdminGate("vault", caller) THEN "AccessDenied"
    ELSE IF vault.paused THEN "Pausable: paused"
    ELSE "ok"

UnpauseOutcome(caller) ==
    IF ~AdminGate("vault", caller) THEN "AccessDenied"
    ELSE IF ~vault.paused THEN "Pausable: not paused"
    ELSE "ok"

Pause(caller) ==
    /\ Idle
    /\ initialized["vault"]
    /\ IF PauseOutcome(caller) # "ok"
       THEN Rejected(PauseOutcome(caller), "pause")
       ELSE /\ vault' = [vault EXCEPT !.paused = TRUE]
            /\ UNCHANGED <<roles, initialized>>
            /\ AccessCompleted("pause")

Unpause(caller) ==
    /\ Idle
    /\ initialized["vault"]
    /\ IF UnpauseOutcome(caller) # "ok"
       THEN Rejected(UnpauseOutcome(caller), "unpause")
       ELSE /\ vault' = [vault EXCEPT !.paused = FALSE]
            /\ UNCHANGED <<roles, initialized>>
            /\ AccessCompleted("unpause")

\* a transfer of funds to the vault
FundVault(amount) ==
    /\ Idle
    /\ initialized["vault"]
    /\ vault.funds + vault.targetFunds + amount <= MaxVaultFunds
    /\ vault' = [vault EXCEPT !.funds = @ + amount]
    /\ UNCHANGED <<roles, initialized>>
    /\ AccessCompleted("transfer")

\* Vault.withdrawFunds(token, target, amount)
WithdrawFundsOutcomeWhenPaused(amount) ==
    IF vault.paused /\ amount > 0 THEN "Pausable: paused"
    ELSE IF amount > vault.funds THEN "ERC20: transfer amount exceeds balance"
    ELSE "ok"

WithdrawFundsOutcome(amount) ==
    IF vault.paused THEN "Pausable: paused"
    ELSE IF amount > vault.funds THEN "ERC20: transfer amount exceeds balance"
    ELSE "ok"

WithdrawFunds(amount) ==
    /\ Idle
    /\ initialized["vault"]
    /\ IF WithdrawFundsOutcome(amount) # "ok"
       THEN Rejected(WithdrawFundsOutcome(amount), "withdrawFunds")
       ELSE /\ vault' = [vault EXCEPT !.funds = @ - amount,
                                      !.targetFunds = @ + amount]
            /\ UNCHANGED <<roles, initialized>>
            /\ AccessCompleted("withdrawFunds")

\* the components from their deployment: initialization, roles, the
\* admin-gated calls of the Network, and the vault
InitAccess ==
    /\ vault = [paused |-> FALSE, funds |-> 0, targetFunds |-> 0]
    /\ roles = [c \in Components |-> {}]
    /\ initialized = [c \in Components |-> FALSE]
    /\ settings = [whitelist |-> {},
                   fundingLimit |-> [t \in BaseTokens |-> 0],
                   minLiquidityForTrading |-> 2,
                   averageRateMaxDeviationPPM |-> PPM_RESOLUTION,
                   withdrawalFeePPM |-> 500000,
                   flashLoanFeePPM |-> 0]
    /\ pools = [t \in BaseTokens |-> NoPool]
    /\ masterPool = NewMasterPool
    /\ balances = InitialBalances
    /\ poolTokens = [t \in Tokens |-> [h \in Holders |-> 0]]
    /\ requests = << >>
    /\ nextId = 1
    /\ time = 0
    /\ locked = FALSE
    /\ pc = "idle"
    /\ loan = NoLoan
    /\ txStart = NoSnapshot
    /\ result = NoResult
    /\ loanEvents = << >>
    /\ lastLoan = NoLastLoan
    /\ ops = 0
    /\ adminOps = 0
    /\ registry = [poolCollections |-> {},
                   latestPoolCollections |-> [ty \in PoolTypes |-> ZERO_ADDRESS],
                   collectionByPool |-> [t \in BaseTokens |-> ZERO_ADDRESS],
                   liquidityPools |-> {}]
    /\ collectionPools = [c \in Collections |-> {}]

VaultAmounts == 0..MaxVaultFunds

NextAccess ==
    \/ \E component \in Components : \E args \in InitializeArgs(component) :
          Initialize(component, args)
    \/ \E caller \in Signers, component \in Components, account \in Signers :
          GrantRole(caller, component, account)
    \/ \E caller \in Signers, c \in Collections : AddPoolCollectionBy(caller, c)
    \/ \E caller \in Signers, c \in Collections, alt \in Collections \cup {ZERO_ADDRESS} :
          RemovePoolCollectionBy(caller, c, alt)
    \/ \E caller \in Signers, c \in Collections : SetLatestPoolCollectionBy(caller, c)
    \/ \E caller \in Signers : Pause(caller)
    \/ \E caller \in Signers : Unpause(caller)
    \/ \E amount \in 1..MaxVaultFunds : FundVault(amount)
    \/ \E amount \in VaultAmounts : WithdrawFunds(amount)

SpecAccess == InitAccess /\ [][NextAccess]_vars

\* the withdrawal requests of a provider over several request ids: requests
\* are opened, cancelled and completed side by side
MaxRequestIds == 2
RequestIds == 1..MaxRequestIds

NextCustody ==
    \/ \E pr \in Providers, t \in BaseTokens, a \in DepositAmounts : Deposit(pr, t, a)
    \/ \E pr \in Providers, t \in BaseTokens, a \in PoolTokenAmounts :
          InitWithdrawalWithin(MaxRequestIds, pr, t, a)
    \/ \E pr \in Providers, id \in RequestIds : CancelWithdrawal(pr, id)
    \/ \E pr \in Providers, id \in RequestIds : Withdraw(pr, id)
    \/ \E caller \in Callers, id \in RequestIds : WithdrawRejected(caller, id)
    \/ AdvanceTime(MaxClock)

SpecCustody == Init /\ [][NextCustody]_vars

(* ------------------------------ properties ---------------------------- *)
Solvent(c, t) ==
    c.balances[t][MasterVault] + c.balances[t][ExternalProtectionVault]
        >= c.pools[t].stakedBalance

\* the state before the operation that the current step completes
PreState == IF pc = "callback" THEN txStart ELSE core

C2_AsStated ==
    Idle => \A t \in BaseTokens :
        pools[t].exists => (pools[t].poolTokenSupply = 0 <=> pools[t].stakedBalance = 0)

\* C2 amended: a pool whose staked balance is 0 has a pool-token supply of 0
\* (the converse fails once a fee is credited to a pool without pool tokens).
C2_NoSupplyWithoutStake ==
    \A t \in BaseTokens :
        pools[t].exists => (pools[t].stakedBalance = 0 => pools[t].poolTokenSupply = 0)

\* a full withdrawal emptied the pool and left its fee in the vault
C2_Witness ==
    /\ Idle
    /\ \E t \in BaseTokens :
          /\ nextId > 1
          /\ requests = << >>
          /\ poolTokens[t][Custody] = 0
          /\ pools[t].stakedBalance = 0
          /\ pools[t].poolTokenSupply = 0
          /\ balances[t][MasterVault] > 0

C5_AsStated ==
    Idle => \A t \in BaseTokens : Solvent(core, t)

\* C5 amended: every accepted operation other than a trade of NT for the base
\* token preserves solvency: if the two vaults held at least the staked
\* balance before the operation, they do after it.
C5_SolvencyPreserved ==
    [][\A t \in BaseTokens :
          (Idle' /\ Solvent(PreState, t) /\ ~TradeNetworkToBase) => Solvent(core', t)]_vars

\* a flash-loan of the base token with a fee completed on a solvent pool
C5_Witness ==
    /\ Idle
    /\ result.outcome = "ok"
    /\ lastLoan.token \in BaseTokens
    /\ lastLoan.feeAmount > 0
    /\ pools[lastLoan.token].stakedBalance > 0
    /\ Solvent(core, lastLoan.token)

C7_ReentryRejected ==
    [][Reenter => /\ result'.outcome = ReentrantCall
                  /\ pc' = "idle"
                  /\ core' = txStart]_vars

\* a deposit from inside the callback reverted the flash-loan
C7_Witness ==
    /\ Idle
    /\ result.outcome = ReentrantCall
    /\ result.raisedBy = "deposit"

\* C8: flashLoan fails with InsufficientFlashLoanReturn whenever the vault's
\* balance after the callback is below its balance before the loan plus
\* floor(amount * flash_loan_fee_ppm / 1000000).
C8_InsufficientReturn ==
    [][\A r \in ReturnAmounts :
          (/\ FlashLoanReturn(r)
           /\ balances[loan.token][MasterVault] + r
                  < loan.prevVaultBalance
                      + (loan.amount * settings.flashLoanFeePPM) \div 1000000)
          => result'.outcome = "InsufficientFlashLoanReturn"]_vars

\* a recipient returned too little while a fee was due
C8_Witness ==
    /\ Idle
    /\ result.outcome = "InsufficientFlashLoanReturn"
    /\ settings.flashLoanFeePPM > 0

\* C9: a successful flashLoan raises the staked balance of the borrowed
\* token's pool (the MasterPool's for NT) by exactly the fee, leaves the
\* vault with at least its balance before the loan plus the fee, and leaves
\* the Network's own balance unchanged.
C9_FeeCredited ==
    [][(pc = "callback" /\ result'.outcome = "ok")
          => LET t == loan.token
                 fee == (loan.amount * settings.flashLoanFeePPM) \div 1000000
             IN /\ IF t = NT
                   THEN /\ masterPool'.stakedBalance = txStart.masterPool.stakedBalance + fee
                        /\ pools' = txStart.pools
                   ELSE /\ pools'[t].stakedBalance = txStart.pools[t].stakedBalance + fee
                        /\ masterPool' = txStart.masterPool
                /\ balances'[t][MasterVault] >= loan.prevVaultBalance + fee
                /\ balances'[t][Network] = txStart.balances[t][Network]]_vars

\* a flash-loan with a fee succeeded although more than amount + fee came back
C9_Witness ==
    /\ Idle
    /\ result.outcome = "ok"
    /\ lastLoan.feeAmount > 0
    /\ lastLoan.returned > lastLoan.amount + lastLoan.feeAmount

\* C10 as stated: withdraw(id) by the provider fails with
\* WithdrawalNotAllowed before c + L and after c + L + W, and succeeds at
\* every time strictly between.
C10_AsStated ==
    Idle => \A id \in DOMAIN requests :
        LET r == requests[id]
            start == r.createdAt + LockDuration
            end == start + WithdrawalWindowDuration
        IN /\ (time < start \/ time > end)
                  => WithdrawOutcome(r.provider, id) = "WithdrawalNotAllowed"
           /\ (start < time /\ time < end) => WithdrawOutcome(r.provider, id) = "ok"

\* C10 amended: withdraw(id) by the provider fails with WithdrawalNotAllowed
\* before c + L and after c + L + W; strictly between it is never
\* WithdrawalNotAllowed: it succeeds when the token is whitelisted and the
\* pool's spot rate is stable, and fails with NetworkLiquidityDisabled
\* otherwise.
C10_WithdrawalWindow ==
    Idle => \A id \in DOMAIN requests :
        LET r == requests[id]
            t == r.poolToken
            start == r.createdAt + LockDuration
            end == start + WithdrawalWindowDuration
            usable == /\ t \in settings.whitelist
                      /\ HasTradingLiquidity(pools[t]) => PoolRateStable(pools[t])
        IN /\ (time < start \/ time > end)
                  => WithdrawOutcome(r.provider, id) = "WithdrawalNotAllowed"
           /\ (start < time /\ time < end)
                  => WithdrawOutcome(r.provider, id) =
                         (IF usable THEN "ok" ELSE "NetworkLiquidityDisabled")

\* a request outlived its withdrawal window
C10_Witness ==
    /\ Idle
    /\ \E id \in DOMAIN requests :
          /\ time > requests[id].createdAt + LockDuration + WithdrawalWindowDuration
          /\ WithdrawOutcome(requests[id].provider, id) = "WithdrawalNotAllowed"

\* C11: withdraw(id) fails with AccessDenied when no request with that id
\* exists and when the caller is not the provider of the request, at any
\* time; the request stays pending and no pool tokens move.
C11_AccessDenied ==
    [][\A caller \in Callers, id \in 1..MaxRequests :
          (~OpenRequest(id) \/ requests[id].provider # caller)
          => /\ WithdrawOutcome(caller, id) = "AccessDenied"
             /\ ~Withdraw(caller, id)
             /\ WithdrawRejected(caller, id)
                   => /\ result'.outcome = "AccessDenied"
                      /\ requests' = requests
                      /\ poolTokens' = poolTokens
                      /\ balances' = balances]_vars

\* somebody else tried to withdraw a request inside its withdrawal window
C11_Witness ==
    /\ Idle
    /\ result = [outcome |-> "AccessDenied", raisedBy |-> "withdraw"]
    /\ \E id \in DOMAIN requests :
          /\ time > requests[id].createdAt + LockDuration
          /\ time < requests[id].createdAt + LockDuration + WithdrawalWindowDuration
          /\ poolTokens[requests[id].poolToken][Custody] = requests[id].poolTokenAmount

\* C12: cancel_withdrawal(id, provider) by the request's provider succeeds
\* during the lock period, inside the withdrawal window and after the window
\* has expired, and returns exactly the request's pool_token_amount from
\* custody to the provider.
C12_CancelAlwaysPossible ==
    [][\A id \in DOMAIN requests :
          LET r == requests[id]
          IN /\ CancelWithdrawalOutcome(r.provider, id) = "ok"
             /\ CancelWithdrawal(r.provider, id)
                   => /\ id \notin DOMAIN requests'
                      /\ poolTokens'[r.poolToken][r.provider]
                             = poolTokens[r.poolToken][r.provider] + r.poolTokenAmount
                      /\ poolTokens'[r.poolToken][Custody]
                             = poolTokens[r.poolToken][Custody] - r.poolTokenAmount]_vars

\* a request that outlived its window can still be cancelled
C12_Witness ==
    /\ Idle
    /\ \E id \in DOMAIN requests :
          /\ time > requests[id].createdAt + LockDuration + WithdrawalWindowDuration
          /\ CancelWithdrawalOutcome(requests[id].provider, id) = "ok"
          /\ poolTokens[requests[id].poolToken][Custody] >= requests[id].poolTokenAmount

\* the pools named by a batch
BatchPools(batch) == {batch[i] : i \in DOMAIN batch}

\* the pool is held by a collection older than the latest one of its type
NewerCollectionIsLatest(t) ==
    /\ t \in BaseTokens
    /\ registry.collectionByPool[t] # ZERO_ADDRESS
    /\ LET prev == registry.collectionByPool[t]
           new == registry.latestPoolCollections[PoolType(prev)]
       IN new # ZERO_ADDRESS /\ new # prev /\ Version(new) > Version(prev)

\* the pool is held by the latest collection of its type
InLatestCollection(t) ==
    /\ t \in BaseTokens
    /\ registry.collectionByPool[t] # ZERO_ADDRESS
    /\ registry.latestPoolCollections[PoolType(registry.collectionByPool[t])]
           = registry.collectionByPool[t]

\* C13 as stated: upgrade_pools(batch) skips every pool of the batch that is
\* invalid or already in the newest collection and still upgrades all the
\* other pools of the batch, without failing the batch.
C13_AsStated ==
    [][\A batch \in UpgradeBatches :
          UpgradePools(batch)
          => /\ result'.outcome = "ok"
             /\ \A t \in BatchPools(batch) :
                   NewerCollectionIsLatest(t)
                   => registry'.collectionByPool[t]
                          = registry.latestPoolCollections[PoolType(registry.collectionByPool[t])]]_vars

C15_UpgradePreserves ==
    [][\A batch \in UpgradeBatches :
          (UpgradePools(batch) /\ result'.outcome = "ok")
          => \A t \in BatchPools(batch) :
                LET source == registry.collectionByPool[t]
                    target == registry.latestPoolCollections[PoolType(source)]
                IN /\ t \notin collectionPools'[source]
                   /\ t \in collectionPools'[target]
                   /\ registry'.collectionByPool[t] = target
                   /\ pools'[t] = pools[t]
                   /\ poolTokens' = poolTokens
                   /\ balances' = balances]_vars

\* a trading pool with deposits and an average rate was upgraded
C15_Witness ==
    /\ Idle
    /\ result = [outcome |-> "ok", raisedBy |-> "upgradePools"]
    /\ \E t \in BaseTokens, pr \in Providers :
          /\ registry.collectionByPool[t] = TargetPoolCollection
          /\ pools[t].tradingEnabled
          /\ pools[t].averageRate.rate.n > 0
          /\ pools[t].tradingLiquidityProduct > 0
          /\ pools[t].stakedBalance > 0
          /\ poolTokens[t][pr] > 0

\* C16: every existing pool is held by exactly one registered collection,
\* the one collectionByPool names (zero when the pool does not exist);
\* createPool puts the pool in the latest collection of the requested type,
\* upgradePools moves it without copying it, and deposits go on in the
\* collection that holds the pool.
C16_OneCollectionPerPool ==
    [][/\ \A t \in BaseTokens :
             LET holding == {c \in Collections : t \in collectionPools[c]}
             IN IF pools[t].exists
                THEN /\ holding = {registry.collectionByPool[t]}
                     /\ registry.collectionByPool[t] \in registry.poolCollections
                     /\ t \in registry.liquidityPools
                ELSE /\ holding = {}
                     /\ registry.collectionByPool[t] = ZERO_ADDRESS
                     /\ t \notin registry.liquidityPools
       /\ \A ty \in PoolTypes, t \in BaseTokens :
             (CreatePool(ty, t) /\ result'.outcome = "ok")
             => /\ registry'.collectionByPool[t] = registry.latestPoolCollections[ty]
                /\ t \in collectionPools'[registry.latestPoolCollections[ty]]
       /\ \A batch \in UpgradeBatches :
             (UpgradePools(batch) /\ result'.outcome = "ok")
             => \A t \in BatchPools(batch) :
                   /\ Cardinality(collectionPools'[registry.collectionByPool[t]])
                          = Cardinality(collectionPools[registry.collectionByPool[t]]) - 1
                   /\ Cardinality(collectionPools'[registry'.collectionByPool[t]])
                          = Cardinality(collectionPools[registry'.collectionByPool[t]]) + 1
       /\ \A pr \in Providers, t \in BaseTokens, a \in DepositAmounts :
             Deposit(pr, t, a)
             => /\ t \in collectionPools[registry.collectionByPool[t]]
                /\ pools'[t].stakedBalance = pools[t].stakedBalance + a]_vars

\* a pool created through the Network was moved to the second collection and
\* holds deposits there
C16_Witness ==
    /\ Idle
    /\ result = NoResult
    /\ \E t \in BaseTokens :
          /\ registry.collectionByPool[t] = TargetPoolCollection
          /\ collectionPools[PoolCollection] = {}
          /\ collectionPools[TargetPoolCollection] = {t}
          /\ pools[t].stakedBalance = LpFunds

\* the errors whose condition holds for createPool(poolType, t)
CreatePoolErrors(poolType, t) ==
    (IF registry.latestPoolCollections[poolType] = ZERO_ADDRESS THEN {"InvalidType"} ELSE {})
        \cup (IF t = NT THEN {"InvalidToken"} ELSE {})
        \cup (IF t \notin settings.whitelist THEN {"NotWhitelisted"} ELSE {})
        \cup (IF t \in registry.liquidityPools THEN {"AlreadyExists"} ELSE {})

\* C17: createPool(type, token) fails with InvalidType when no collection is
\* registered for the type, with InvalidToken for the network token, with
\* NotWhitelisted for a token that is not whitelisted and with AlreadyExists
\* when the pool exists (with one of these errors when several conditions
\* hold); a failing call leaves liquidityPools and collectionByPool unchanged.
C17_CreatePoolErrors ==
    [][\A ty \in PoolTypes, t \in Tokens :
          (CreatePool(ty, t) /\ CreatePoolErrors(ty, t) # {})
          => /\ result'.outcome \in CreatePoolErrors(ty, t)
             /\ registry'.liquidityPools = registry.liquidityPools
             /\ registry'.collectionByPool = registry.collectionByPool
             /\ UNCHANGED <<collectionPools, pools>>]_vars

\* a second createPool for an existing, whitelisted pool was turned down
C17_Witness ==
    /\ Idle
    /\ result = [outcome |-> "AlreadyExists", raisedBy |-> "createPool"]
    /\ \E t \in BaseTokens :
          /\ t \in settings.whitelist
          /\ t \in registry.liquidityPools
          /\ registry.collectionByPool[t] # ZERO_ADDRESS

\* pool tokens a base-token deposit gave the provider in this step
IssuedPoolTokens(pr, t) == poolTokens'[t][pr] - poolTokens[t][pr]

\* a successful base-token deposit of a by sender s for provider pr
BaseTokenDeposit(s, pr, t, a) ==
    IF s = pr THEN Deposit(pr, t, a) ELSE DepositFor(s, pr, t, a)

RECURSIVE SumOf(_, _)
SumOf(f, S) ==
    IF S = {} THEN 0
    ELSE LET x == CHOOSE y \in S : TRUE IN f[x] + SumOf(f, S \ {x})

\* total supply of a token: the sum of the accounts' balances
TotalSupply(b, t) == SumOf(b[t], Accounts)

\* C19: a successful base-token deposit of amount by a sender for a provider
\* increases the master vault's balance of the token by amount, decreases the
\* sender's balance by amount, increases the staked balance by amount, mints
\* the new pool tokens to the provider only, never decreases the NT total
\* supply or the vault's NT balance, and leaves the governance-token supply,
\* the provider's and the sender's governance-token balances and (when the
\* provider is not the sender) the provider's token balance unchanged.
C19_DepositFrame ==
    [][\A s \in Callers, pr \in Providers, t \in BaseTokens, a \in DepositAmounts :
          BaseTokenDeposit(s, pr, t, a)
          => /\ balances'[t][MasterVault] = balances[t][MasterVault] + a
             /\ balances'[t][s] = balances[t][s] - a
             /\ pools'[t].stakedBalance = pools[t].stakedBalance + a
             /\ IssuedPoolTokens(pr, t) = pools'[t].poolTokenSupply - pools[t].poolTokenSupply
             /\ \A u \in Tokens, h \in Holders :
                   (u # t \/ h # pr) => poolTokens'[u][h] = poolTokens[u][h]
             /\ TotalSupply(balances', NT) >= TotalSupply(balances, NT)
             /\ balances'[NT][MasterVault] >= balances[NT][MasterVault]
             /\ TotalSupply(balances', GovToken) = TotalSupply(balances, GovToken)
             /\ balances'[GovToken][pr] = balances[GovToken][pr]
             /\ balances'[GovToken][s] = balances[GovToken][s]
             /\ (s # pr => balances'[t][pr] = balances[t][pr])]_vars

\* a sender other than the provider deposited into a trading pool for a
\* provider who had no tokens to deposit, and the deposit drew NT funding
C19_Witness ==
    /\ Idle
    /\ result = NoResult
    /\ \E t \in BaseTokens, pr \in Providers, tr \in Traders :
          /\ OpenRequest(1)
          /\ requests[1].provider = pr
          /\ balances[t][pr] = 0
          /\ poolTokens[t][pr] > 0
          /\ balances[t][tr] < TraderFunds
          /\ pools[t].tradingEnabled
          /\ masterPool.currentPoolFunding[t] > settings.minLiquidityForTrading
          /\ balances[NT][MasterVault] = masterPool.currentPoolFunding[t]

\* C20: a successful network-token deposit of amount burns amount NT (the NT
\* total supply decreases by amount), gives the provider
\* p = floor(amount * master_pool_token_supply / nt_staked_balance) master
\* pool tokens and mints exactly p governance tokens to the provider; the
\* master pool token's total supply and the master vault's NT balance are
\* unchanged.
C20_NetworkTokenDeposit ==
    [][\A s \in Callers, pr \in Providers, a \in NetworkTokenAmounts :
          NetworkTokenDeposit(s, pr, a)
          => /\ masterPool.stakedBalance > 0
             /\ LET p == (a * masterPool.poolTokenSupply) \div masterPool.stakedBalance
                IN /\ TotalSupply(balances', NT) = TotalSupply(balances, NT) - a
                   /\ poolTokens'[NT][pr] = poolTokens[NT][pr] + p
                   /\ balances'[GovToken][pr] = balances[GovToken][pr] + p
                   /\ TotalSupply(balances', GovToken) = TotalSupply(balances, GovToken) + p
                   /\ masterPool'.poolTokenSupply = masterPool.poolTokenSupply
                   /\ balances'[NT][MasterVault] = balances[NT][MasterVault]]_vars

\* a provider received master pool tokens and as many governance tokens for
\* a network-token deposit made after a fee had raised the staked balance
\* above the supply: fewer pool tokens than NT burned
C20_Witness ==
    /\ Idle
    /\ result = NoResult
    /\ \E pr \in Providers :
          /\ poolTokens[NT][pr] > 0
          /\ balances[GovToken][pr] = poolTokens[NT][pr]
          /\ masterPool.poolTokenBalance + poolTokens[NT][pr] = masterPool.poolTokenSupply
          /\ masterPool.stakedBalance > masterPool.poolTokenSupply
          /\ balances[NT][pr] < LpNetworkFunds
          /\ poolTokens[NT][pr] < LpNetworkFunds - balances[NT][pr]

UnstableWithFunding(t) ==
    /\ PoolExists(t)
    /\ AvailableFunding(t) > 0
    /\ HasTradingLiquidity(pools[t])
    /\ ~PoolRateStable(pools[t])

\* C22: a base-token deposit into a pool with unallocated NT funding
\* available reverts with NetworkLiquidityDisabled when the pool's spot rate
\* is off its average rate by more than the deviation bound (1.5% against a
\* bound of 1%), leaving the pool and all balances unchanged.
C22_UnstableDepositReverts ==
    [][\A s \in Callers, t \in BaseTokens, a \in DepositAmounts :
          UnstableWithFunding(t)
          => /\ \A pr \in Providers : ~BaseTokenDeposit(s, pr, t, a)
             /\ DepositRejected(s, t, a)
                   => /\ result'.outcome = "NetworkLiquidityDisabled"
                      /\ UNCHANGED <<pools, masterPool, balances, poolTokens, settings>>]_vars

\* a deposit into the whitelisted pool was turned down while its average
\* rate was the injected one, 1.5% off the spot rate, under the 1% bound
C22_Witness ==
    /\ Idle
    /\ result = [outcome |-> "NetworkLiquidityDisabled", raisedBy |-> "deposit"]
    /\ settings.averageRateMaxDeviationPPM = MAX_DEVIATION
    /\ \E t \in BaseTokens :
          /\ t \in settings.whitelist
          /\ UnstableWithFunding(t)
          /\ pools[t].averageRate.rate
                 = UnstableAverageRate(pools[t].baseTokenTradingLiquidity,
                                       pools[t].networkTokenTradingLiquidity)
          /\ pools[t].stakedBalance = 4

\* the request is open, inside its withdrawal window, and its pool has an
\* unstable spot rate or a token that is no longer whitelisted
WithdrawalBlocked(id) ==
    /\ OpenRequest(id)
    /\ CanWithdrawAt(time, requests[id])
    /\ LET t == requests[id].poolToken
       IN \/ t \notin settings.whitelist
          \/ (HasTradingLiquidity(pools[t]) /\ ~PoolRateStable(pools[t]))

\* C23: a base-token withdraw(id) attempted inside the withdrawal window
\* reverts with NetworkLiquidityDisabled when the pool's spot rate is off its
\* average rate by more than the deviation bound or when the token has been
\* removed from the whitelist; the request stays pending, no pool tokens are
\* burned and no funds leave the vaults.
C23_BlockedWithdrawReverts ==
    [][\A id \in 1..MaxRequests :
          WithdrawalBlocked(id)
          => LET pr == requests[id].provider
             IN /\ ~Withdraw(pr, id)
                /\ WithdrawRejected(pr, id)
                      => /\ result'.outcome = "NetworkLiquidityDisabled"
                         /\ requests' = requests
                         /\ poolTokens' = poolTokens
                         /\ pools' = pools
                         /\ balances' = balances]_vars

\* the provider's withdrawal from the whitelisted pool was turned down
\* inside the window while the spot rate was unstable; the request is still
\* pending with its pool tokens in custody
C23_Witness ==
    /\ Idle
    /\ result = [outcome |-> "NetworkLiquidityDisabled", raisedBy |-> "withdraw"]
    /\ WithdrawalBlocked(1)
    /\ requests[1].poolToken \in settings.whitelist
    /\ poolTokens[requests[1].poolToken][Custody] = requests[1].poolTokenAmount
    /\ time >= requests[1].createdAt + LockDuration

\* the deposit passes every check made before the pool's own deposit checks
ReachesPoolDeposit(sender, t, amount) ==
    DepositOutcome(sender, t, amount)
        \notin {ReentrantCall, "ZeroValue", "InvalidToken",
                "NetworkLiquidityDisabled", "NotWhitelisted"}

\* C25: a deposit that reaches the pool is rejected with DepositingDisabled
\* when depositing is disabled, and otherwise with DepositLimitExceeded
\* exactly when staked + amount > deposit_limit; a rejected deposit leaves the
\* staked balance and the pool token supply unchanged, and a deposit with
\* staked + amount = deposit_limit that the sender can fund is accepted.
C25_DepositLimit ==
    [][\A sender \in Callers, t \in BaseTokens, amount \in DepositAmounts :
          ReachesPoolDeposit(sender, t, amount)
          => LET p == pools[t]
                 outcome == DepositOutcome(sender, t, amount)
             IN /\ ~p.depositingEnabled => outcome = "DepositingDisabled"
                /\ p.depositingEnabled
                      => /\ outcome = "DepositLimitExceeded"
                               <=> p.stakedBalance + amount > p.depositLimit
                         /\ (/\ p.stakedBalance + amount = p.depositLimit
                             /\ balances[t][sender] >= amount)
                               => outcome = "ok"
                /\ (/\ DepositRejected(sender, t, amount)
                    /\ outcome \in {"DepositingDisabled", "DepositLimitExceeded"})
                      => /\ result'.outcome = outcome
                         /\ pools'[t].stakedBalance = p.stakedBalance
                         /\ pools'[t].poolTokenSupply = p.poolTokenSupply
                         /\ poolTokens' = poolTokens]_vars

\* a deposit that brought the staked balance exactly to the limit was
\* accepted (the provider holds its pool tokens) and the next deposit was
\* turned down with DepositLimitExceeded
C25_Witness ==
    /\ Idle
    /\ result = [outcome |-> "DepositLimitExceeded", raisedBy |-> "deposit"]
    /\ \E t \in BaseTokens :
          /\ pools[t].depositingEnabled
          /\ pools[t].stakedBalance = pools[t].depositLimit
          /\ \E pr \in Providers : poolTokens[t][pr] > 0

\* the post-trade spot rate of a one-hop trade leaves the deviation bound
\* around the average rate
BreaksDeviation(t, sourceIsNT, amount) ==
    LET h == TradeHop(pools[t], sourceIsNT, amount)
    IN ~IsStable(h.newBaseTokenTradingLiquidity, h.newNetworkTokenTradingLiquidity,
                 UpdatedAverageRate(pools[t], time).rate,
                 settings.averageRateMaxDeviationPPM)

\* the outcome the pool's checks give a one-hop trade of a whitelisted token
TradeErrors ==
    \A tr \in Traders, t \in TradePools, sourceIsNT \in BOOLEAN,
       a \in TradeInAmounts, m \in MinReturnAmounts :
       LET source == IF sourceIsNT THEN NT ELSE t
           target == IF sourceIsNT THEN t ELSE NT
           outcome == TradeRouteOutcome(tr, source, target, a, m)
           out == TradeHop(pools[t], sourceIsNT, a).amount
       IN (Idle /\ t \in settings.whitelist)
             => /\ ~pools[t].tradingEnabled => outcome = "TradingDisabled"
                /\ (pools[t].tradingEnabled /\ out < m)
                      => outcome = "ReturnAmountTooLow"
                /\ (/\ pools[t].tradingEnabled
                    /\ out >= m
                    /\ BreaksDeviation(t, sourceIsNT, a))
                      => outcome = "RateUnstable"

\* a step that reports a trade's error is a rejected trade
TradeRejectedStep ==
    /\ result'.raisedBy = "trade"
    /\ \E tr \in Traders, t1 \in TradePools \cup {NT}, t2 \in TradePools \cup {NT},
          a \in TradeInAmounts, m \in MinReturnAmounts : TradeRejected(tr, t1, t2, a, m)

\* C24: a trade between a base token and the network token fails with
\* TradingDisabled when trading is disabled, with ReturnAmountTooLow when
\* amount_out < min_out, and with RateUnstable when the post-trade spot rate
\* breaks the deviation bound; a rejected trade changes no pool field and no
\* balance.
C24_TradeRejections ==
    /\ []TradeErrors
    /\ [][TradeRejectedStep
             => /\ result'.outcome # "ok"
                /\ pools' = pools
                /\ masterPool' = masterPool
                /\ balances' = balances]_vars

\* a trade with a sufficient return was turned down with RateUnstable on a
\* pool that trades, under a deviation bound that the trade would break
C24_Witness ==
    /\ result = [outcome |-> "RateUnstable", raisedBy |-> "trade"]
    /\ \E t \in TradePools, sourceIsNT \in BOOLEAN, a \in TradeInAmounts :
          /\ pools[t].tradingEnabled
          /\ TradeHop(pools[t], sourceIsNT, a).amount >= MIN_RETURN_AMOUNT
          /\ BreaksDeviation(t, sourceIsNT, a)

\* the amount of the target token a trade on either route pays out
TradeAmount(source, target, amount) ==
    IF source # NT /\ target # NT
    THEN TradeBaseToBaseHops(source, target, amount).second.amount
    ELSE TradeHop(pools[TradePool(source, target)], source = NT, amount).amount

\* the accepted trade of this step, on either route
TradeAccepted(tr, to, source, target, a, m) ==
    \/ TradeTo(tr, to, source, target, a, m)
    \/ TradeBaseToBase(tr, to, source, target, a, m)

\* C26: a successful trade moves exactly amount of the source token from the
\* trader to the master vault and amount_out of the target token from the
\* master vault to the beneficiary (the trader when the zero address is
\* passed), with amount_out >= min_return_amount.
C26_TradeBalances ==
    [][ops' # ops
          => \A tr \in Traders, to \in Beneficiaries,
                source \in TradePools \cup {NT}, target \in TradePools \cup {NT},
                a \in TradeInAmounts, m \in MinReturnAmounts :
                TradeAccepted(tr, to, source, target, a, m)
                => LET out == TradeAmount(source, target, a)
                       beneficiary == IF to = ZERO_ADDRESS THEN tr ELSE to
                       moved(t, acc) == balances'[t][acc] - balances[t][acc]
                   IN /\ out >= m
                      /\ moved(source, tr) = -a
                      /\ moved(source, MasterVault) = a
                      /\ moved(target, MasterVault) = -out
                      /\ moved(target, beneficiary) = out
                      /\ \A acc \in Accounts \ {tr, MasterVault} : moved(source, acc) = 0
                      /\ \A acc \in Accounts \ {beneficiary, MasterVault} :
                            moved(target, acc) = 0]_vars

\* a trade was paid to a beneficiary other than the trader: the recipient
\* holds a traded base token, the trader paid and received none of it
C26_Witness ==
    \E source \in TradePools \cup {NT}, target \in TradePools :
       /\ source # target
       /\ balances[target][Recipient] >= MIN_RETURN_AMOUNT
       /\ \A tr \in Traders :
             /\ balances[source][tr] < MaxTradeAmount
             /\ balances[target][tr] = MaxTradeAmount

\* C27: a trade of a base token for another base token, routed through the
\* network token, leaves the network token balances of the trader, the
\* beneficiary and the master vault unchanged.
C27_NetworkTokenUntouched ==
    [][ops' # ops
          => \A tr \in Traders, to \in Beneficiaries,
                source \in TradePools, target \in TradePools,
                a \in TradeInAmounts, m \in MinReturnAmounts :
                TradeBaseToBase(tr, to, source, target, a, m)
                => /\ balances'[NT][tr] = balances[NT][tr]
                   /\ balances'[NT][TradeBeneficiary(tr, to)]
                         = balances[NT][TradeBeneficiary(tr, to)]
                   /\ balances'[NT][MasterVault] = balances[NT][MasterVault]]_vars

\* a base token was traded for the other one: the trader paid the source
\* token, the target token left the vault, and the network token the first
\* hop bought was spent in the second, so the vault still holds the pools'
\* network token liquidity and the trader its network tokens
C27_Witness ==
    \E source \in TradePools, target \in TradePools :
       /\ source # target
       /\ \E tr \in Traders :
             /\ balances[source][tr] < MaxTradeAmount
             /\ balances[NT][tr] = MaxTradeAmount
       /\ balances[target][MasterVault] < pools[target].stakedBalance
       /\ pools[source].networkTokenTradingLiquidity < masterPool.currentPoolFunding[source]
       /\ balances[NT][MasterVault]
             = pools[source].networkTokenTradingLiquidity
                  + pools[target].networkTokenTradingLiquidity

\* the trading liquidity (b, n) of a pool
TradingLiquidity(p) ==
    [b |-> p.baseTokenTradingLiquidity, n |-> p.networkTokenTradingLiquidity]

\* C28: the fee of a hop is credited to a staked balance and never to the
\* trading liquidity: a hop from a base token to the network token raises
\* the MasterPool's staked balance by the fee, a hop from the network token
\* to a base token raises the target pool's staked balance by the fee, and a
\* trade between two base tokens does both.
C28_FeesToStakedBalance ==
    [][ops' # ops
          => \A tr \in Traders, to \in Beneficiaries, t \in TradePools,
                a \in TradeInAmounts, m \in MinReturnAmounts :
                LET sell == TradeHop(pools[t], FALSE, a)
                    buy == TradeHop(pools[t], TRUE, a)
                IN /\ TradeTo(tr, to, t, NT, a, m)
                      => /\ masterPool'.stakedBalance
                               = masterPool.stakedBalance + sell.feeAmount
                         /\ pools'[t].stakedBalance = pools[t].stakedBalance
                         /\ TradingLiquidity(pools'[t])
                               = [b |-> TradingLiquidity(pools[t]).b + a,
                                  n |-> TradingLiquidity(pools[t]).n - sell.amount]
                   /\ TradeTo(tr, to, NT, t, a, m)
                      => /\ pools'[t].stakedBalance = pools[t].stakedBalance + buy.feeAmount
                         /\ masterPool'.stakedBalance = masterPool.stakedBalance
                         /\ TradingLiquidity(pools'[t])
                               = [b |-> TradingLiquidity(pools[t]).b - buy.amount,
                                  n |-> TradingLiquidity(pools[t]).n + a]
                   /\ \A t2 \in TradePools :
                         TradeBaseToBase(tr, to, t, t2, a, m)
                         => LET second == TradeHop(pools[t2], TRUE, sell.amount)
                            IN /\ masterPool'.stakedBalance
                                     = masterPool.stakedBalance + sell.feeAmount
                               /\ pools'[t].stakedBalance = pools[t].stakedBalance
                               /\ pools'[t2].stakedBalance
                                     = pools[t2].stakedBalance + second.feeAmount
                               /\ TradingLiquidity(pools'[t])
                                     = [b |-> TradingLiquidity(pools[t]).b + a,
                                        n |-> TradingLiquidity(pools[t]).n - sell.amount]
                               /\ TradingLiquidity(pools'[t2])
                                     = [b |-> TradingLiquidity(pools[t2]).b - second.amount,
                                        n |-> TradingLiquidity(pools[t2]).n + sell.amount]]_vars

\* a trade between the two base tokens charged a fee on both hops: the
\* MasterPool's and the target pool's staked balances exceed what was
\* deposited, and the source pool's does not
C28_Witness ==
    \E source \in TradePools, target \in TradePools :
       /\ source # target
       /\ masterPool.stakedBalance > masterPool.poolTokenSupply
       /\ pools[target].stakedBalance > pools[target].poolTokenSupply
       /\ pools[source].stakedBalance = pools[source].poolTokenSupply
       /\ \E tr \in Traders : balances[source][tr] < MaxTradeAmount

\* the amounts a trade function is compared on
AmountsIn == 1..MaxTradeAmount

\* amount_out of a hop on pool t for amount_in a
AmountOut(t, sourceIsNT, a) == TradeHop(pools[t], sourceIsNT, a).amount

\* C29 as stated: for fixed (b, n, f), amount_out is strictly increasing in
\* amount_in.
C29_AsStated ==
    \A t \in TradePools, sourceIsNT \in BOOLEAN, a1 \in AmountsIn, a2 \in AmountsIn :
       (HasTradingLiquidity(pools[t]) /\ a1 < a2)
          => AmountOut(t, sourceIsNT, a1) < AmountOut(t, sourceIsNT, a2)

\* C29: for fixed (b, n, f), amount_out never decreases as amount_in grows;
\* with the floor divisions two amounts can buy the same amount_out.
C29_TradeMonotone ==
    \A t \in TradePools, sourceIsNT \in BOOLEAN, a1 \in AmountsIn, a2 \in AmountsIn :
       (HasTradingLiquidity(pools[t]) /\ a1 < a2)
          => AmountOut(t, sourceIsNT, a1) <= AmountOut(t, sourceIsNT, a2)

\* after a trade, a pool with liquidity pays more for one larger amount and
\* the same for another
C29_Witness ==
    /\ \E tr \in Traders, t \in TradePools : balances[t][tr] # MaxTradeAmount
    /\ \E t \in TradePools, sourceIsNT \in BOOLEAN :
          /\ HasTradingLiquidity(pools[t])
          /\ \E a1 \in AmountsIn, a2 \in AmountsIn :
                /\ a1 < a2
                /\ AmountOut(t, sourceIsNT, a1) < AmountOut(t, sourceIsNT, a2)
          /\ \E a1 \in AmountsIn, a2 \in AmountsIn :
                /\ a1 < a2
                /\ AmountOut(t, sourceIsNT, a1) = AmountOut(t, sourceIsNT, a2)
                /\ AmountOut(t, sourceIsNT, a1) > 0

\* the round trip on pool t: amount a of the base token is sold for the
\* network token, and all of the network token received buys the base token
\* back from the pool as the first hop left it
RoundTrip(t, a) ==
    LET sell == TradeHop(pools[t], FALSE, a)
        buy == TradeHop(PoolAfterHop(pools[t], FALSE, sell), TRUE, sell.amount)
    IN [amount |-> buy.amount, fees |-> sell.feeAmount + buy.feeAmount,
        exact |-> (pools[t].networkTokenTradingLiquidity * a)
                      % (pools[t].baseTokenTradingLiquidity + a) = 0]

WithdrawnAfterDeposit(pr, t) ==
    LET w == WithdrawalAmounts(pools'[t], IssuedPoolTokens(pr, t),
                               balances'[t][MasterVault],
                               balances'[t][ExternalProtectionVault],
                               settings.withdrawalFeePPM,
                               settings.minLiquidityForTrading,
                               settings.averageRateMaxDeviationPPM)
    IN w.baseTokenAmountToTransferFromVaultToProvider
          + w.baseTokenAmountToTransferFromExternalProtectionVaultToProvider

\* returned is x * (1 - withdrawal_fee_ppm / PPM) within 1
WithinOneOfNet(returned, x) ==
    Abs(returned * PPM_RESOLUTION - x * (PPM_RESOLUTION - settings.withdrawalFeePPM))
        <= PPM_RESOLUTION

TradingTurnedOn(t) == pools[t].exists /\ ~pools[t].tradingEnabled /\ pools'[t].tradingEnabled

C32_TradingAndDepositingFlags ==
    /\ \A t \in BaseTokens : pools[t].exists => ~pools[t].tradingEnabled
    /\ [](\A t \in BaseTokens : pools[t].exists => pools[t].depositingEnabled)
    /\ [][\A t \in BaseTokens :
            TradingTurnedOn(t) =>
                \E r1 \in VirtualRates, r2 \in VirtualRates : EnableTrading(t, r1, r2)]_vars

\* a first deposit above the minimum liquidity left trading off and depositing on
C32_Witness ==
    \E t \in BaseTokens :
        /\ Idle
        /\ pools[t].exists
        /\ pools[t].stakedBalance > settings.minLiquidityForTrading
        /\ pools[t].poolTokenSupply = pools[t].stakedBalance
        /\ ~pools[t].tradingEnabled
        /\ pools[t].depositingEnabled
        /\ masterPool.currentPoolFunding[t] = 0

\* C33: removePoolCollection fails whenever the collection to remove still
\* holds a pool, with NotEmpty when the collection is registered and the
\* alternative is acceptable; the failing call leaves the registry, the
\* latest collections and the collections' pools unchanged
Alternatives == Collections \cup {ZERO_ADDRESS}

C33_RemoveNotEmpty ==
    [][result' # result =>
        \A c \in Collections, alt \in Alternatives :
            (RemovePoolCollection(c, alt) /\ collectionPools[c] # {})
            => /\ result'.raisedBy = "removePoolCollection"
               /\ result'.outcome \in {"NotEmpty", "DoesNotExist"}
               /\ (/\ c \in registry.poolCollections
                   /\ alt \in registry.poolCollections \cup {ZERO_ADDRESS})
                  => result'.outcome = "NotEmpty"
               /\ UNCHANGED <<registry, collectionPools, pools>>]_vars

\* a registered collection that holds a pool was not removed
C33_Witness ==
    /\ result = [outcome |-> "NotEmpty", raisedBy |-> "removePoolCollection"]
    /\ \E c \in registry.poolCollections :
          /\ collectionPools[c] # {}
          /\ registry.latestPoolCollections[PoolType(c)] = c

\* C34: after removePoolCollection(c, alt) succeeds, c is not among the
\* registered collections and the latest collection of c's type is alt, also
\* when c was not the latest before and when alt is the zero address (with c
\* the last collection: the registry is empty and the latest is zero)
RemoveAccepted(c, alt) ==
    /\ RemovePoolCollection(c, alt)
    /\ result'.outcome = "ok"

C34_RemoveEffect ==
    [][registry' # registry =>
        \A c \in Collections, alt \in Alternatives :
            RemoveAccepted(c, alt)
            => /\ c \in registry.poolCollections
               /\ registry'.poolCollections = registry.poolCollections \ {c}
               /\ registry'.latestPoolCollections[PoolType(c)] = alt
               /\ \A ty \in PoolTypes \ {PoolType(c)} :
                     registry'.latestPoolCollections[ty] = registry.latestPoolCollections[ty]
               /\ (alt = ZERO_ADDRESS /\ registry.poolCollections = {c})
                  => /\ registry'.poolCollections = {}
                     /\ \A ty \in PoolTypes :
                           registry'.latestPoolCollections[ty] = ZERO_ADDRESS]_vars

\* a collection that was not the latest of its type was removed and the
\* alternative became the latest
C34_Witness ==
    /\ result = [outcome |-> "ok", raisedBy |-> "removePoolCollection"]
    /\ registry.poolCollections = {TargetPoolCollection}
    /\ registry.latestPoolCollections[StandardPoolType] = TargetPoolCollection
    /\ collectionPools[TargetPoolCollection] # {}

\* C39: after any sequence of addPoolCollection, removePoolCollection and
\* setLatestPoolCollection, the latest collection of a type is the zero
\* address or a registered collection of that type; a removed or never
\* registered collection is never the latest (removePoolCollection(c, c)
\* included)
C39_LatestRegistered ==
    \A ty \in PoolTypes :
        LET latest == registry.latestPoolCollections[ty]
        IN \/ latest = ZERO_ADDRESS
           \/ latest \in registry.poolCollections /\ PoolType(latest) = ty

\* C35: addPoolCollection, removePoolCollection and setLatestPoolCollection
\* on the Network and pause and unpause on a vault reject a caller without
\* ROLE_ADMIN with AccessDenied and change nothing; a caller that holds the
\* role, the deployer or an account it was granted to, is never denied and
\* the call takes effect
Denied(call) ==
    /\ result' = [outcome |-> "AccessDenied", raisedBy |-> call]
    /\ UNCHANGED <<registryVars, accessVars, coreVars>>

C36_PausedVault ==
    [][(result' # result \/ vault' # vault) =>
        /\ \A amount \in VaultAmounts :
              WithdrawFunds(amount)
              => IF vault.paused
                 THEN /\ result' = [outcome |-> "Pausable: paused",
                                    raisedBy |-> "withdrawFunds"]
                      /\ UNCHANGED <<vault, roles, initialized>>
                 ELSE IF amount <= vault.funds
                 THEN /\ result' = [outcome |-> "ok", raisedBy |-> "withdrawFunds"]
                      /\ vault'.funds = vault.funds - amount
                      /\ vault'.targetFunds = vault.targetFunds + amount
                      /\ ~vault'.paused
                 ELSE result'.outcome \notin {"ok", "none"} /\ UNCHANGED vault
        /\ \A amount \in 1..MaxVaultFunds :
              (FundVault(amount) /\ vault.paused)
              => /\ result'.outcome = "ok"
                 /\ vault'.funds = vault.funds + amount
                 /\ vault'.paused]_vars

\* a paused vault that holds funds, after an earlier withdrawal to the
\* target, turned a withdrawal down
C36_Witness ==
    /\ vault.paused
    /\ vault.funds > 0
    /\ vault.targetFunds > 0
    /\ result = [outcome |-> "Pausable: paused", raisedBy |-> "withdrawFunds"]

\* C37: once initialize has succeeded on a component (the Network, a vault),
\* every later initialize call on it fails, whatever its arguments, and
\* leaves the component's state (roles, flags, registry, funds) unchanged
C37_InitializeOnce ==
    [][result' # result =>
        \A component \in Components : \A args \in InitializeArgs(component) :
            (Initialize(component, args) /\ initialized[component])
            => /\ result'.raisedBy = "initialize"
               /\ result'.outcome \in {"Initializable: contract is already initialized",
                                       "InvalidAddress"}
               /\ (\A i \in DOMAIN args : args[i] # ZERO_ADDRESS)
                  => result'.outcome = "Initializable: contract is already initialized"
               /\ UNCHANGED <<accessVars, registryVars, coreVars>>]_vars

\* a second initialize was turned down on a component whose admin had
\* granted the role to a second account
C37_Witness ==
    /\ result = [outcome |-> "Initializable: contract is already initialized",
                 raisedBy |-> "initialize"]
    /\ \E component \in Components :
          /\ initialized[component]
          /\ roles[component] = {Deployer, NonOwner}

\* C38: a withdrawal request is completed or cancelled at most once: once
\* withdraw(id) or the cancellation of id has succeeded the request is gone
\* for good, every later withdraw or cancellation of the id is denied, ids
\* are handed out in increasing order and never again, and the request's
\* pool tokens leave the custody exactly once, burned by the withdrawal or
\* returned to the provider by the cancellation
Closed(id) == id < nextId /\ ~OpenRequest(id)

ClosedRequestsDenied ==
    \A id \in RequestIds :
        /\ OpenRequest(id) => id < nextId
        /\ Closed(id)
           => \A caller \in Callers :
                 /\ WithdrawOutcome(caller, id) = "AccessDenied"
                 /\ CancelWithdrawalOutcome(caller, id) = "AccessDenied"

ClosedOnce ==
    /\ nextId' >= nextId
    /\ \A id \in RequestIds :
          /\ (id < nextId /\ ~OpenRequest(id)) => id \notin DOMAIN requests'
          /\ (~OpenRequest(id) /\ id \in DOMAIN requests')
             => id = nextId /\ nextId' = nextId + 1
    /\ \A pr \in Providers, id \in RequestIds :
          /\ Withdraw(pr, id)
             => LET r == requests[id]
                    t == r.poolToken
                IN /\ id \notin DOMAIN requests'
                   /\ poolTokens'[t][Custody] = poolTokens[t][Custody] - r.poolTokenAmount
                   /\ pools'[t].poolTokenSupply = pools[t].poolTokenSupply - r.poolTokenAmount
                   /\ poolTokens'[t][pr] = poolTokens[t][pr]
          /\ CancelWithdrawal(pr, id)
             => LET r == requests[id]
                    t == r.poolToken
                IN /\ id \notin DOMAIN requests'
                   /\ poolTokens'[t][Custody] = poolTokens[t][Custody] - r.poolTokenAmount
                   /\ poolTokens'[t][pr] = poolTokens[t][pr] + r.poolTokenAmount
                   /\ pools'[t].poolTokenSupply = pools[t].poolTokenSupply
    /\ \A caller \in Callers, id \in RequestIds :
          (WithdrawRejected(caller, id) /\ Closed(id))
          => /\ result' = [outcome |-> "AccessDenied", raisedBy |-> "withdraw"]
             /\ UNCHANGED <<poolTokens, requests, pools, balances, nextId>>

C38_RequestClosedOnce == []ClosedRequestsDenied /\ [][ClosedOnce]_vars

\* the first request is closed, a second one is open under the next id, and a
\* withdrawal was just denied
C38_Witness ==
    /\ Closed(1)
    /\ OpenRequest(2)
    /\ nextId = 3
    /\ result = [outcome |-> "AccessDenied", raisedBy |-> "withdraw"]
    /\ \E t \in BaseTokens : poolTokens[t][Custody] = requests[2].poolTokenAmount

\* C40: at every time and for every pool token, the amount PendingWithdrawals
\* holds in custody equals the sum of poolTokenAmount over the open requests
\* for that pool token; initWithdrawal moves exactly the requested amount
\* from the provider into the custody; a base-token withdraw burns exactly the
\* request's amount: the custody and the supply drop by it, the provider's
\* pool tokens and the pool tokens held outside providers and custody (by the
\* pool collection) are unchanged
RECURSIVE RequestedAmount(_, _)
RequestedAmount(ids, t) ==
    IF ids = {} THEN 0
    ELSE LET id == CHOOSE i \in ids : TRUE
             amount == IF requests[id].poolToken = t
                       THEN requests[id].poolTokenAmount ELSE 0
         IN amount + RequestedAmount(ids \ {id}, t)

CustodyMatchesRequests ==
    \A t \in Tokens : poolTokens[t][Custody] = RequestedAmount(DOMAIN requests, t)

\* pool tokens in circulation that neither a provider nor the custody holds,
\* from the supply and the holders' balances of one pool token
RECURSIVE Holdings(_, _)
Holdings(held, hs) ==
    IF hs = {} THEN 0
    ELSE LET h == CHOOSE x \in hs : TRUE
         IN held[h] + Holdings(held, hs \ {h})

HeldElsewhere(supply, held) == supply - Holdings(held, Holders)

CustodyMoves ==
    ops' # ops =>
        \A pr \in Providers :
            /\ \A t \in BaseTokens, a \in PoolTokenAmounts :
                  InitWithdrawalWithin(MaxRequestIds, pr, t, a)
                  => /\ poolTokens'[t][pr] = poolTokens[t][pr] - a
                     /\ poolTokens'[t][Custody] = poolTokens[t][Custody] + a
                     /\ pools'[t].poolTokenSupply = pools[t].poolTokenSupply
                     /\ requests'[nextId].poolTokenAmount = a
                     /\ requests'[nextId].provider = pr
            /\ \A id \in RequestIds :
                  Withdraw(pr, id)
                  => LET r == requests[id]
                         t == r.poolToken
                     IN /\ poolTokens'[t][Custody] = poolTokens[t][Custody] - r.poolTokenAmount
                        /\ pools'[t].poolTokenSupply
                               = pools[t].poolTokenSupply - r.poolTokenAmount
                        /\ poolTokens'[t][pr] = poolTokens[t][pr]
                        /\ HeldElsewhere(pools'[t].poolTokenSupply, poolTokens'[t])
                               = HeldElsewhere(pools[t].poolTokenSupply, poolTokens[t])

C40_CustodyEqualsRequests == []CustodyMatchesRequests /\ [][CustodyMoves]_vars

\* one request was completed and burned, the other is still open and in custody
C40_Witness ==
    \E t \in BaseTokens :
        /\ Closed(1)
        /\ OpenRequest(2)
        /\ requests[2].poolToken = t
        /\ poolTokens[t][Custody] = requests[2].poolTokenAmount
        /\ pools[t].poolTokenSupply = requests[2].poolTokenAmount
        /\ \A pr \in Providers : poolTokens[t][pr] = 0
====
